---- MODULE Spec2Model ----
(***************************************************************************)
(* Model of the crypto narrative tracker: the RSS scanner (main.py) with   *)
(* its history store and trend calculator, and the dashboard (app.py)      *)
(* that reads the same history file.                                       *)
(*                                                                         *)
(* A Python dict is modelled as a sequence of [k, v] records with distinct *)
(* keys, in insertion order (the order iteration, sorted() and             *)
(* most_common() see).  The history file is modelled by the value          *)
(* json.load would produce from it plus the way reading it fails.          *)
(* Floating-point percentages are modelled as exact rationals.             *)
(***************************************************************************)
EXTENDS Integers, Sequences, FiniteSets, TLC

VARIABLES
    file,            \* crypto_tracking_history.json: [kind, log]
    now,             \* the clock datetime.now() reads
    pc,              \* main.py: "idle" or "scanning"
    sub,             \* main.py: index of the next subreddit to scan
    total_mentions,  \* main.py: the Counter main() accumulates
    posts_seen,      \* number of posts fetched so far, over all runs
    runs,            \* number of executions of main() started
    out,             \* what the last execution of main() computed and printed
    page,            \* what the last dashboard request rendered
    appended,        \* every snapshot appended to the current log, oldest first
    feeds,           \* main.py twice on one input: the posts each subreddit serves
    out2,            \* main.py twice on one input: what the second execution printed
    mpc,             \* main_multi_source.py: the statement main() is at
    source_data,     \* main_multi_source.py: run_all_trackers' dict of tallies
    all_keyword_posts, \* main_multi_source.py: run_all_trackers' list of posts
    returned,        \* what each analyze_<source>() call returned or raised
    results,         \* what aggregate_all_sources returned to main()
    text_pc,         \* extract_tickers: "idle", "call" or "return"
    text_in,         \* the text handed to extract_tickers
    tickers_out,     \* the list extract_tickers returned for text_in
    keywords_out,    \* the vocabulary check_keywords used and the list it returned
    keyword_posts_in, \* main.py: all_keyword_posts when the scan loop has ended
    alerts,          \* main.py: what the NARRATIVE ALERTS section printed
    wpc,             \* a save_to_history call: "idle", "loaded" or "opened"
    dumping,         \* a save_to_history call: the list it is about to dump
    rpc,             \* a dashboard request: "idle" or "read1"
    read1,           \* a dashboard request: the file as load_latest_data read it
    observed,        \* what the last read of the file found, and what it could expect
    nostr_in,        \* what the relays and bridges answer to get_nostr_posts
    nostr_out        \* what get_nostr_posts returned or raised

scan_vars == <<file, now, pc, sub, total_mentions, posts_seen, runs, out, page, appended>>

twin_vars == <<feeds, out2>>

multi_vars == <<mpc, source_data, all_keyword_posts, returned, results>>

text_vars == <<text_pc, text_in, tickers_out, keywords_out>>

cluster_vars == <<keyword_posts_in, alerts>>

conc_vars == <<wpc, dumping, rpc, read1, observed>>

nostr_vars == <<nostr_in, nostr_out>>

vars == <<scan_vars, twin_vars, multi_vars, text_vars, cluster_vars, conc_vars, nostr_vars>>

----------------------------------------------------------------------------
(* Bounds of the model *)

MaxRuns == 2
MaxPosts == 2
MaxCount == 2
MaxHist == 2
MaxItems == 2
MaxPieces == 4
MaxDocs == 3

(* Program constants *)

HISTORY_CAP == 100
TOP_N == 20
MOVERS_N == 5
NUM_SUBREDDITS == 4
ALERT_GROUPS == 5
ALERT_POSTS == 3
ALERT_TICKERS == 3
TITLE_CHARS == 100

MAJORS_TO_EXCLUDE ==
    { "BTC", "ETH", "SOL", "BNB", "XRP", "ADA", "DOGE", "AVAX",
      "DOT", "MATIC", "LINK", "UNI", "LTC", "ATOM", "XLM", "ALGO",
      "VET", "FIL", "NEAR", "APT", "ARB", "OP", "HBAR", "INJ" }

common_cryptos ==
    { "BTC", "ETH", "SOL", "BNB", "XRP", "ADA", "DOGE", "AVAX", "DOT", "MATIC" }

----------------------------------------------------------------------------
(* Python values *)

Min(a, b) == IF a < b THEN a ELSE b

Abs(a) == IF a < 0 THEN -a ELSE a

RECURSIVE Gcd(_, _)
Gcd(a, b) == IF b = 0 THEN a ELSE Gcd(b, a % b)

(* An exact rational in lowest terms with a positive denominator. *)
Rat(n, d) ==
    LET g == Gcd(Abs(n), Abs(d))
        s == IF d < 0 THEN -1 ELSE 1
    IN  [num |-> (s * n) \div g, den |-> (s * d) \div g]

RatInt(n) == [num |-> n, den |-> 1]

(* a / b, true division of two ints (b # 0) *)
TrueDiv(a, b) == Rat(a, b)

(* r * n for a rational r and an int n *)
RatTimes(r, n) == Rat(r.num * n, r.den)

(* dict: keys(), get(), item lookup, assignment *)
Keys(d) == { d[i].k : i \in DOMAIN d }

Get(d, key, default) ==
    IF key \in Keys(d)
    THEN d[CHOOSE i \in DOMAIN d : d[i].k = key].v
    ELSE default

SetItem(d, key, val) ==
    IF key \in Keys(d)
    THEN [i \in DOMAIN d |-> IF d[i].k = key THEN [k |-> key, v |-> val] ELSE d[i]]
    ELSE Append(d, [k |-> key, v |-> val])

IsDict(d) == \A i, j \in DOMAIN d : d[i].k = d[j].k => i = j

(* Counter(iterable): counts the elements of a list, keys in first-seen order *)
RECURSIVE CounterOf(_)
CounterOf(list) ==
    IF list = <<>> THEN <<>>
    ELSE LET c == CounterOf(SubSeq(list, 1, Len(list) - 1))
             x == list[Len(list)]
         IN  SetItem(c, x, Get(c, x, 0) + 1)

(* Counter.update(other): adds other's counts, new keys appended in other's order *)
RECURSIVE CounterUpdate(_, _)
CounterUpdate(c, other) ==
    IF other = <<>> THEN c
    ELSE LET c1 == CounterUpdate(c, SubSeq(other, 1, Len(other) - 1))
             e == other[Len(other)]
         IN  SetItem(c1, e.k, Get(c1, e.k, 0) + e.v)

(* seq[-n:] *)
LastN(seq, n) ==
    IF Len(seq) <= n THEN seq ELSE SubSeq(seq, Len(seq) - n + 1, Len(seq))

(* seq[:n] *)
FirstN(seq, n) == SubSeq(seq, 1, Min(n, Len(seq)))

(* sorted(seq, key=.., reverse=True), keys[i] being the key of seq[i]: a stable
   sort, so elements with equal keys keep the order they had in seq *)
SortedDescBy(seq, keys) ==
    LET n == Len(seq)
        pos(i) == Cardinality({ j \in 1..n :
                      keys[j] > keys[i] \/ (keys[j] = keys[i] /\ j < i) }) + 1
    IN  [p \in 1..n |-> seq[CHOOSE i \in 1..n : pos(i) = p]]

(* sorted(d.items(), key=lambda x: x[1], reverse=True) *)
SortedByCountDesc(d) == SortedDescBy(d, [i \in DOMAIN d |-> d[i].v])

(* Counter.most_common(n) *)
most_common(d, n) == FirstN(SortedByCountDesc(d), n)

(* every list holding the elements of a set once: the orders list(set(..))
   can produce *)
ListsOf(S) ==
    { l \in [1..Cardinality(S) -> S] : \A i, j \in DOMAIN l : l[i] = l[j] => i = j }

----------------------------------------------------------------------------
(* The history file *)

Ok(v) == [exc |-> "none", value |-> v]

Raised(e) == [exc |-> e, value |-> <<>>]

os_path_exists(f) == f.kind # "absent"

(* open(HISTORY_FILE, mode): fails on a file the process cannot open *)
open(f) == IF f.kind = "unreadable" THEN Raised("OSError") ELSE Ok(f)

(* json.load(f): the parsed value, or JSONDecodeError *)
json_load(f) == IF f.kind = "corrupt" THEN Raised("JSONDecodeError") ELSE Ok(f.log)

(* the with-block of load_history before its except clause *)
read_json(f) ==
    IF open(f).exc # "none" THEN open(f) ELSE json_load(f)

(* load_history with an except clause that catches json.JSONDecodeError only *)
load_history_CatchJsonOnly(f) ==
    IF os_path_exists(f)
    THEN IF read_json(f).exc = "JSONDecodeError" THEN Ok(<<>>) ELSE read_json(f)
    ELSE Ok(<<>>)

load_history(f) ==
    IF os_path_exists(f)
    THEN IF read_json(f).exc # "none" THEN Ok(<<>>) ELSE read_json(f)
    ELSE Ok(<<>>)

Entry(ts, tickers) == [timestamp |-> ts, tickers |-> tickers]

(* save_to_history(ticker_data) at clock value ts: the file afterwards and the
   exception that left the function, if any *)
(* save_to_history keeping history[:100], the oldest entries *)
save_to_history_KeepOldest(f, ts, ticker_data) ==
    LET history == Append(load_history(f).value, Entry(ts, ticker_data))
        kept == IF Len(history) > HISTORY_CAP THEN SubSeq(history, 1, HISTORY_CAP) ELSE history
    IN  IF load_history(f).exc # "none"
        THEN [exc |-> load_history(f).exc, file |-> f]
        ELSE IF open(f).exc # "none"
        THEN [exc |-> open(f).exc, file |-> f]
        ELSE [exc |-> "none", file |-> [kind |-> "valid", log |-> kept]]

(* save_to_history opening the file with mode 'a': the new JSON text follows
   whatever the file held *)
save_to_history_AppendMode(f, ts, ticker_data) ==
    LET history == Append(load_history(f).value, Entry(ts, ticker_data))
        kept == IF Len(history) > HISTORY_CAP THEN LastN(history, HISTORY_CAP) ELSE history
    IN  IF load_history(f).exc # "none"
        THEN [exc |-> load_history(f).exc, file |-> f]
        ELSE IF open(f).exc # "none"
        THEN [exc |-> open(f).exc, file |-> f]
        ELSE IF os_path_exists(f)
        THEN [exc |-> "none", file |-> [kind |-> "corrupt", log |-> f.log]]
        ELSE [exc |-> "none", file |-> [kind |-> "valid", log |-> kept]]

(* save_to_history stamping every entry it writes with the current time *)
save_to_history_Restamp(f, ts, ticker_data) ==
    LET loaded == load_history(f).value
        history == Append([i \in DOMAIN loaded |-> Entry(ts, loaded[i].tickers)],
                          Entry(ts, ticker_data))
        kept == IF Len(history) > HISTORY_CAP THEN LastN(history, HISTORY_CAP) ELSE history
    IN  IF load_history(f).exc # "none"
        THEN [exc |-> load_history(f).exc, file |-> f]
        ELSE IF open(f).exc # "none"
        THEN [exc |-> open(f).exc, file |-> f]
        ELSE [exc |-> "none", file |-> [kind |-> "valid", log |-> kept]]

save_to_history(f, ts, ticker_data) ==
    LET history == Append(load_history(f).value, Entry(ts, ticker_data))
        kept == IF Len(history) > HISTORY_CAP THEN LastN(history, HISTORY_CAP) ELSE history
    IN  IF load_history(f).exc # "none"
        THEN [exc |-> load_history(f).exc, file |-> f]
        ELSE IF open(f).exc # "none"
        THEN [exc |-> open(f).exc, file |-> f]
        ELSE [exc |-> "none", file |-> [kind |-> "valid", log |-> kept]]

----------------------------------------------------------------------------
(* Trend calculators *)

(* main.py calculate_trends(current_mentions), history being what load_history
   returned *)
main_trend_record(previous, ticker, current_count) ==
    LET previous_count == Get(previous, ticker, 0)
        change == current_count - previous_count
        percent_change ==
            IF previous_count > 0
            THEN RatTimes(TrueDiv(change, previous_count), 100)
            ELSE IF current_count > 0 THEN RatInt(100) ELSE RatInt(0)
    IN  [change |-> change, percent |-> percent_change, previous |-> previous_count]

(* calculate_trends without the early return, previous defaulting to {} as on
   line 168 *)
main_calculate_trends_NoEarlyReturn(history, current_mentions) ==
    LET previous == IF Len(history) >= 2 THEN history[Len(history) - 1].tickers ELSE <<>>
    IN  [i \in DOMAIN current_mentions |->
            [k |-> current_mentions[i].k,
             v |-> main_trend_record(previous, current_mentions[i].k,
                                     current_mentions[i].v)]]

main_calculate_trends(history, current_mentions) ==
    IF Len(history) < 2 THEN <<>>
    ELSE LET previous == history[Len(history) - 1].tickers
         IN  [i \in DOMAIN current_mentions |->
                 [k |-> current_mentions[i].k,
                  v |-> main_trend_record(previous, current_mentions[i].k,
                                          current_mentions[i].v)]]

(* app.py calculate_trends(history) *)
app_trend_record(previous, ticker, count) ==
    LET prev_count == Get(previous, ticker, 0)
        change == count - prev_count
    IN  [change |-> change,
         previous |-> prev_count,
         is_new |-> (prev_count = 0),
         percent |-> IF prev_count > 0
                     THEN RatTimes(TrueDiv(change, prev_count), 100)
                     ELSE RatInt(100)]

(* calculate_trends iterating over the previous snapshot's tickers as well *)
app_calculate_trends_BothSnapshots(history) ==
    IF Len(history) < 2 THEN <<>>
    ELSE LET current == history[Len(history)].tickers
             previous == history[Len(history) - 1].tickers
             gone == SelectSeq(previous, LAMBDA e : e.k \notin Keys(current))
             both == current \o [i \in DOMAIN gone |-> [k |-> gone[i].k, v |-> 0]]
         IN  [i \in DOMAIN both |->
                 [k |-> both[i].k,
                  v |-> app_trend_record(previous, both[i].k, both[i].v)]]

app_calculate_trends(history) ==
    IF Len(history) < 2 THEN <<>>
    ELSE LET current == history[Len(history)].tickers
             previous == history[Len(history) - 1].tickers
         IN  [i \in DOMAIN current |->
                 [k |-> current[i].k,
                  v |-> app_trend_record(previous, current[i].k, current[i].v)]]

----------------------------------------------------------------------------
(* Ticker extraction (main.py).  A text is the sequence of its maximal letter
   runs, each with or without a "$" right before it; upper-casing is Upper. *)

Tok(sigil, word) == [sigil |-> sigil, word |-> word]

Upper(w) ==
    CASE w = "aaa" -> "AAA"
      [] w = "zzz" -> "ZZZ"
      [] w = "btc" -> "BTC"
      [] w = "eth" -> "ETH"
      [] w = "moon" -> "MOON"
      [] OTHER -> w

(* re.findall(r'\$([A-Z]{2,10})\b', text.upper()) *)
sigil_tickers(text) ==
    { Upper(text[i].word) : i \in { j \in DOMAIN text :
          text[j].sigil /\ Len(text[j].word) >= 2 /\ Len(text[j].word) <= 10 } }

(* re.findall(r'\b([A-Z]{3,6})\b', text.upper()): the "$" is no word character,
   so a run after a "$" is a candidate as well *)
potential_tickers(text) ==
    { Upper(text[i].word) : i \in { j \in DOMAIN text :
          Len(text[j].word) >= 3 /\ Len(text[j].word) <= 6 } }

(* extract_tickers accepting every bare token of 3 to 6 letters *)
extract_tickers_AnyBare(text) == sigil_tickers(text) \cup potential_tickers(text)

(* the set extract_tickers turns into a list *)
extract_tickers(text) ==
    sigil_tickers(text) \cup { t \in potential_tickers(text) : t \in common_cryptos }

Post(title, content) == [title |-> title, content |-> content]

(* post['title'] + ' ' + post['content'] *)
post_text(post) == post.title \o post.content

Posts ==
    { Post(<<Tok(TRUE, "AAA")>>, <<>>),
      Post(<<Tok(TRUE, "zzz")>>, <<Tok(TRUE, "aaa"), Tok(FALSE, "moon")>>),
      Post(<<Tok(FALSE, "btc")>>, <<Tok(TRUE, "ZZZ")>>),
      Post(<<Tok(TRUE, "eth"), Tok(FALSE, "AAA")>>, <<>>) }

(* what get_reddit_rss can return with n posts left in the model's budget: a
   list of posts, empty when the fetch failed or the feed was empty *)
Feeds(n) == UNION { [1..m -> Posts] : m \in 0..n }

(* the values all_tickers can have after the loop of analyze_subreddit: each
   post contributes list(set(..)), whose order is not fixed *)
RECURSIVE all_tickers_lists(_)
all_tickers_lists(posts) ==
    IF posts = <<>> THEN { <<>> }
    ELSE { a \o b : a \in all_tickers_lists(SubSeq(posts, 1, Len(posts) - 1)),
                    b \in ListsOf(extract_tickers(post_text(posts[Len(posts)]))) }

(* the dict comprehension of main() that drops the majors, order kept *)
(* main() ranking and saving total_mentions as it is *)
filter_majors_Unfiltered(d) == d

RECURSIVE filter_majors(_)
filter_majors(d) ==
    IF d = <<>> THEN <<>>
    ELSE LET rest == filter_majors(SubSeq(d, 1, Len(d) - 1))
             e == d[Len(d)]
         IN  IF e.k \notin MAJORS_TO_EXCLUDE THEN Append(rest, e) ELSE rest

----------------------------------------------------------------------------
(* Stored histories *)

SeedTally(i) ==
    CASE i % 3 = 0 -> << [k |-> "AAA", v |-> 2] >>
      [] i % 3 = 1 -> << [k |-> "AAA", v |-> 1], [k |-> "ZZZ", v |-> 1] >>
      [] OTHER -> << >>

(* a log left by n earlier runs *)
Seed(n) == [i \in 1..n |-> Entry(i, SeedTally(i))]

File(kind, log) == [kind |-> kind, log |-> log]

SeedLens == { 1, 2, HISTORY_CAP - 1, HISTORY_CAP }

InitFiles ==
    { File("absent", <<>>), File("corrupt", Seed(1)), File("unreadable", Seed(2)) }
    \cup { File("valid", Seed(n)) : n \in SeedLens }

NoOut ==
    [ran |-> FALSE, exc |-> "none", before |-> File("absent", <<>>),
     loaded |-> Ok(<<>>), filtered |-> <<>>, trends |-> <<>>, ranked |-> <<>>,
     history_count |-> 0]

NoPage ==
    [served |-> FALSE, data |-> FALSE, top_tickers |-> <<>>, trends |-> <<>>,
     movers |-> <<>>, scans_count |-> 0, before |-> File("absent", <<>>)]

(* the second execution of main.py, not started *)
TwinIdle == feeds = <<>> /\ out2 = NoOut

(* main_multi_source.py, not started *)
NoResults ==
    [called |-> FALSE, source_data |-> <<>>, keyword_posts |-> <<>>,
     scored_tickers |-> <<>>, insights |-> <<>>]

MultiIdle ==
    /\ mpc = "idle"
    /\ source_data = <<>>
    /\ all_keyword_posts = <<>>
    /\ returned = <<>>
    /\ results = NoResults

NoKeywords == [vocabulary |-> <<>>, found |-> <<>>]

(* no call of extract_tickers or check_keywords under study *)
TextIdle ==
    text_pc = "idle" /\ text_in = "" /\ tickers_out = <<>> /\ keywords_out = NoKeywords

NoAlerts == [ran |-> FALSE, printed |-> FALSE, keyword_groups |-> <<>>, groups |-> <<>>]

(* the NARRATIVE ALERTS section of main.py, not reached *)
ClusterIdle == keyword_posts_in = <<>> /\ alerts = NoAlerts

NoRead == [read |-> FALSE, history |-> <<>>, allowed |-> {}]

(* no save_to_history call and no dashboard request taken step by step *)
ConcIdle ==
    /\ wpc = "idle" /\ dumping = <<>>
    /\ rpc = "idle" /\ read1 = File("absent", <<>>)
    /\ observed = NoRead

NoCall == [exc |-> "none", called |-> FALSE, value |-> <<>>]

(* get_nostr_posts not under study *)
NostrIdle == nostr_in = <<>> /\ nostr_out = NoCall

Init ==
    /\ file \in InitFiles
    /\ now = Len(file.log) + 1
    /\ pc = "idle"
    /\ sub = 1
    /\ total_mentions = <<>>
    /\ posts_seen = 0
    /\ runs = 0
    /\ out = NoOut
    /\ page = NoPage
    /\ appended = load_history(file).value
    /\ TwinIdle /\ MultiIdle /\ TextIdle /\ ClusterIdle /\ ConcIdle /\ NostrIdle

----------------------------------------------------------------------------
(* main.py: one execution of main() *)

(* the Trend column of the ranking table *)
trend_str(trends, ticker) ==
    IF ticker \in Keys(trends)
    THEN LET change == Get(trends, ticker, 0).change
         IN  IF change > 0 THEN "UP" ELSE IF change < 0 THEN "DOWN" ELSE "SAME"
    ELSE "NEW"

(* the rows printed under TOP 20 EMERGING CRYPTO TICKERS *)
ranking(filtered_mentions, trends) ==
    LET top == most_common(filtered_mentions, TOP_N)
    IN  [i \in DOMAIN top |->
            [ticker |-> top[i].k, count |-> top[i].v,
             trend |-> trend_str(trends, top[i].k)]]

(* main() from the end of the scan loop on, for the Counter mentions, the file f
   and the clock value ts: the file afterwards and what the run reports *)
(* main() calling save_to_history only when a ticker was found *)
main_report_SkipEmpty(f, ts, mentions) ==
    LET filtered_mentions == filter_majors(mentions)
        trends == main_calculate_trends(load_history(f).value, filtered_mentions)
        saved == IF filtered_mentions = <<>>
                 THEN [exc |-> "none", file |-> f]
                 ELSE save_to_history(f, ts, filtered_mentions)
    IN  [file |-> saved.file,
         out |-> [ran |-> TRUE, exc |-> saved.exc, before |-> f,
                  loaded |-> load_history(f),
                  filtered |-> filtered_mentions, trends |-> trends,
                  ranked |-> IF saved.exc # "none" THEN <<>>
                             ELSE ranking(filtered_mentions, trends),
                  history_count |-> IF saved.exc # "none" THEN 0
                                    ELSE Len(load_history(saved.file).value)]]

main_report(f, ts, mentions) ==
    LET filtered_mentions == filter_majors(mentions)
        trends == main_calculate_trends(load_history(f).value, filtered_mentions)
        saved == IF load_history(f).exc # "none"
                 THEN [exc |-> load_history(f).exc, file |-> f]
                 ELSE save_to_history(f, ts, filtered_mentions)
    IN  [file |-> saved.file,
         out |-> IF saved.exc # "none"
                 THEN [ran |-> TRUE, exc |-> saved.exc, before |-> f,
                       loaded |-> load_history(f),
                       filtered |-> filtered_mentions, trends |-> trends,
                       ranked |-> <<>>, history_count |-> 0]
                 ELSE [ran |-> TRUE, exc |-> "none", before |-> f,
                       loaded |-> load_history(f),
                       filtered |-> filtered_mentions, trends |-> trends,
                       ranked |-> ranking(filtered_mentions, trends),
                       history_count |-> Len(load_history(saved.file).value)]]

StartMain ==
    /\ pc = "idle"
    /\ runs < MaxRuns
    /\ pc' = "scanning"
    /\ sub' = 1
    /\ total_mentions' = <<>>
    /\ runs' = runs + 1
    /\ UNCHANGED <<file, now, posts_seen, out, page, appended>>
    /\ UNCHANGED <<twin_vars, multi_vars, text_vars, cluster_vars, conc_vars, nostr_vars>>

(* one iteration of the loop over subreddits: analyze_subreddit and
   total_mentions.update *)
ScanSubreddit ==
    /\ pc = "scanning"
    /\ sub <= NUM_SUBREDDITS
    /\ \E posts \in Feeds(MaxPosts - posts_seen) :
         \E all_tickers \in all_tickers_lists(posts) :
            /\ total_mentions' = CounterUpdate(total_mentions, CounterOf(all_tickers))
            /\ posts_seen' = posts_seen + Len(posts)
    /\ sub' = sub + 1
    /\ UNCHANGED <<file, now, pc, runs, out, page, appended>>
    /\ UNCHANGED <<twin_vars, multi_vars, text_vars, cluster_vars, conc_vars, nostr_vars>>

(* the rest of main(): filter, calculate_trends, save_to_history, report *)
FinishMain ==
    /\ pc = "scanning"
    /\ sub = NUM_SUBREDDITS + 1
    /\ LET r == main_report(file, now, total_mentions)
       IN  /\ file' = r.file
           /\ out' = r.out
           /\ appended' = IF r.out.exc = "none"
                          THEN Append(appended, Entry(now, r.out.filtered))
                          ELSE appended
    /\ now' = now + 1
    /\ pc' = "idle"
    /\ UNCHANGED <<sub, total_mentions, posts_seen, runs, page>>
    /\ UNCHANGED <<twin_vars, multi_vars, text_vars, cluster_vars, conc_vars, nostr_vars>>

----------------------------------------------------------------------------
(* app.py: one request of the dashboard *)

NoEntry == Entry(0, <<>>)

(* load_latest_data(): has is FALSE where the code returns None or (None, 0) *)
load_latest_data(f) ==
    IF ~os_path_exists(f) THEN [has |-> FALSE, data |-> NoEntry, count |-> 0]
    ELSE IF read_json(f).exc = "none" /\ read_json(f).value # <<>>
         THEN [has |-> TRUE,
               data |-> read_json(f).value[Len(read_json(f).value)],
               count |-> Len(read_json(f).value)]
         ELSE [has |-> FALSE, data |-> NoEntry, count |-> 0]

(* the second read of the file in dashboard(), with its except clause *)
dashboard_trends(f) ==
    IF read_json(f).exc = "none" THEN app_calculate_trends(read_json(f).value) ELSE <<>>

NoTrend == [change |-> 0, previous |-> 0, is_new |-> FALSE, percent |-> RatInt(0)]

top_tickers_of(tickers, trends) ==
    LET top == FirstN(SortedByCountDesc(tickers), TOP_N)
    IN  [i \in DOMAIN top |->
            [symbol |-> top[i].k, count |-> top[i].v,
             change |-> Get(trends, top[i].k, NoTrend).change,
             is_new |-> Get(trends, top[i].k, NoTrend).is_new,
             previous |-> Get(trends, top[i].k, NoTrend).previous]]

movers_of(top_tickers) ==
    LET rising == SelectSeq(top_tickers, LAMBDA t : t.change > 0)
        movers == [i \in DOMAIN rising |->
                     [ticker |-> rising[i].symbol, change |-> rising[i].change,
                      previous |-> rising[i].previous, current |-> rising[i].count]]
    IN  FirstN(SortedDescBy(movers, [i \in DOMAIN movers |-> movers[i].change]), MOVERS_N)

(* dashboard() reading the file as f1 first and as f2 for the trends *)
dashboard(f1, f2) ==
    LET result == load_latest_data(f1)
        trends == dashboard_trends(f2)
        top == top_tickers_of(result.data.tickers, trends)
    IN  IF ~result.has
        THEN [NoPage EXCEPT !.served = TRUE, !.before = f1]
        ELSE [served |-> TRUE, data |-> TRUE, top_tickers |-> top, trends |-> trends,
              movers |-> movers_of(top), scans_count |-> result.count, before |-> f1]

Dashboard ==
    /\ page' = dashboard(file, file)
    /\ UNCHANGED <<file, now, pc, sub, total_mentions, posts_seen, runs, out, appended>>
    /\ UNCHANGED <<twin_vars, multi_vars, text_vars, cluster_vars, conc_vars, nostr_vars>>

Next == StartMain \/ ScanSubreddit \/ FinishMain \/ Dashboard

Spec == Init /\ [][Next]_vars

----------------------------------------------------------------------------
(* The trend calculators applied to every history of the documented shape *)

TrendTickers == { "AAA", "ZZZ" }

(* every dict of counts 0..MaxCount over TrendTickers, in every key order *)
TrendTallies ==
    UNION { { [i \in DOMAIN l |-> [k |-> l[i], v |-> c[i]]] :
                c \in [DOMAIN l -> 0..MaxCount] } :
            l \in UNION { ListsOf(S) : S \in SUBSET TrendTickers } }

TrendHistories ==
    { <<>> } \cup { << Entry(1, a) >> : a \in TrendTallies }
    \cup UNION { { Seed(n - 2) \o << Entry(n - 1, a), Entry(n, b) >> :
                      a \in TrendTallies, b \in TrendTallies } : n \in 2..MaxHist }

InitTrends ==
    /\ file \in { File("valid", h) : h \in TrendHistories }
    /\ now = Len(file.log) + 1
    /\ pc = "idle"
    /\ sub = 1
    /\ total_mentions = <<>>
    /\ posts_seen = 0
    /\ runs = 0
    /\ out = NoOut
    /\ page = NoPage
    /\ appended = file.log
    /\ TwinIdle /\ MultiIdle /\ TextIdle /\ ClusterIdle /\ ConcIdle /\ NostrIdle

(* main.py calculate_trends(current_mentions) on the stored history *)
TrendsMain ==
    /\ ~out.ran /\ ~page.served
    /\ \E current_mentions \in TrendTallies :
          out' = [NoOut EXCEPT !.ran = TRUE, !.before = file,
                               !.loaded = load_history(file),
                               !.filtered = current_mentions,
                               !.trends = main_calculate_trends(load_history(file).value,
                                                                current_mentions)]
    /\ UNCHANGED <<file, now, pc, sub, total_mentions, posts_seen, runs, page, appended>>
    /\ UNCHANGED <<twin_vars, multi_vars, text_vars, cluster_vars, conc_vars, nostr_vars>>

(* app.py calculate_trends(history) inside one dashboard request *)
TrendsApp ==
    /\ ~out.ran /\ ~page.served
    /\ page' = dashboard(file, file)
    /\ UNCHANGED <<file, now, pc, sub, total_mentions, posts_seen, runs, out, appended>>
    /\ UNCHANGED <<twin_vars, multi_vars, text_vars, cluster_vars, conc_vars, nostr_vars>>

NextTrends == TrendsMain \/ TrendsApp

SpecTrends == InitTrends /\ [][NextTrends]_vars

----------------------------------------------------------------------------
(* Properties *)

(* the tally of the snapshot n places from the end of a log (1 = last) *)
TickersFromEnd(log, n) == log[Len(log) - n + 1].tickers

(* a finished execution of main() that got through save_to_history *)
MainDone == out.ran /\ out.exc = "none"

(* C1: whatever log the file held at first, after any number of save_to_history
   calls the persisted log has at most 100 entries and is exactly the last
   min(100, total) snapshots appended, in append order: the oldest are the ones
   evicted and the newest snapshot is its last element. *)
C1_FifoCap ==
    file.kind = "valid" =>
        /\ Len(file.log) <= HISTORY_CAP
        /\ Len(file.log) = Min(HISTORY_CAP, Len(appended))
        /\ file.log = LastN(appended, HISTORY_CAP)
        /\ MainDone => file.log[Len(file.log)] = Entry(now - 1, out.filtered)

C1_Witness ==
    /\ MainDone
    /\ file.kind = "valid"
    /\ Len(appended) > HISTORY_CAP
    /\ Len(file.log) = HISTORY_CAP
    /\ file.log[1] = appended[Len(appended) - HISTORY_CAP + 1]

(* C2: in an execution of main() that is not the first on its history file, the
   reported trend diffs the current scan against the scan persisted by the
   execution right before it: for every ticker t of the current tally,
   previous = that tally's .get(t, 0) and change = current[t] - previous. *)
C2_TrendVsPrecedingRun ==
    (MainDone /\ Len(appended) >= 2) =>
        LET preceding == TickersFromEnd(appended, 2)
        IN  /\ Keys(out.trends) = Keys(out.filtered)
            /\ \A t \in Keys(out.trends) :
                  /\ Get(out.trends, t, 0).previous = Get(preceding, t, 0)
                  /\ Get(out.trends, t, 0).change =
                         Get(out.filtered, t, 0) - Get(preceding, t, 0)

(* C3: for every history of length >= 2 the trend mapping has exactly the keys
   of the current tally (the supplied tally in main.py, history[-1].tickers in
   app.py), each with previous = history[-2].tickers.get(t, 0) and
   change = current[t] - previous; a ticker of the previous snapshot alone is
   not emitted. *)
C3_TrendKeysAndChange ==
    /\ (out.ran /\ Len(out.before.log) >= 2) =>
          LET previous == TickersFromEnd(out.before.log, 2)
          IN  /\ IsDict(out.trends)
              /\ Keys(out.trends) = Keys(out.filtered)
              /\ \A t \in Keys(out.trends) :
                    /\ Get(out.trends, t, 0).previous = Get(previous, t, 0)
                    /\ Get(out.trends, t, 0).change =
                           Get(out.filtered, t, 0) - Get(previous, t, 0)
    /\ (page.served /\ Len(page.before.log) >= 2) =>
          LET current == TickersFromEnd(page.before.log, 1)
              previous == TickersFromEnd(page.before.log, 2)
          IN  /\ IsDict(page.trends)
              /\ Keys(page.trends) = Keys(current)
              /\ \A t \in Keys(page.trends) :
                    /\ Get(page.trends, t, 0).previous = Get(previous, t, 0)
                    /\ Get(page.trends, t, 0).change =
                           Get(current, t, 0) - Get(previous, t, 0)

C3_Witness ==
    /\ page.served
    /\ Len(page.before.log) >= 2
    /\ Keys(TickersFromEnd(page.before.log, 2))
          \ Keys(TickersFromEnd(page.before.log, 1)) # {}
    /\ \E t \in Keys(page.trends) :
          /\ t \notin Keys(TickersFromEnd(page.before.log, 2))
          /\ Get(page.trends, t, 0).change > 0

(* C4: for every history of length 0 or 1 both trend calculators return the
   empty mapping, whatever the current tally is. *)
C4_ShortHistoryNoTrends ==
    /\ (out.ran /\ Len(out.loaded.value) < 2) => out.trends = <<>>
    /\ (page.served /\ Len(page.before.log) < 2) => page.trends = <<>>

C4_Witness ==
    /\ out.ran
    /\ Len(out.before.log) = 1
    /\ out.filtered # <<>>
    /\ out.trends = <<>>

(* C5: in every trend record of either calculator, percent is
   100 * change / previous when previous > 0; when previous = 0 it is 100 if
   the current count is positive and 0 if the current count is 0. *)
PercentAsClaimed(rec, current_count) ==
    IF rec.previous > 0
    THEN rec.percent = Rat(100 * rec.change, rec.previous)
    ELSE rec.percent = (IF current_count > 0 THEN RatInt(100) ELSE RatInt(0))

C5_Percent ==
    /\ \A i \in DOMAIN out.trends :
          PercentAsClaimed(out.trends[i].v, Get(out.filtered, out.trends[i].k, 0))
    /\ \A i \in DOMAIN page.trends :
          PercentAsClaimed(page.trends[i].v,
                           Get(TickersFromEnd(page.before.log, 1), page.trends[i].k, 0))

(* C6: every trend record of either calculator carries an is_new field, and
   is_new is true exactly when the record's previous count is 0. *)
HasIsNew(rec) ==
    /\ "is_new" \in DOMAIN rec
    /\ rec.is_new = (rec.previous = 0)

C6_IsNew ==
    /\ \A i \in DOMAIN out.trends : HasIsNew(out.trends[i].v)
    /\ \A i \in DOMAIN page.trends : HasIsNew(page.trends[i].v)

(* C7: load_history does not raise; it returns the empty log when the file is
   absent, cannot be opened or does not parse as JSON, and the persisted log
   unchanged otherwise. *)
C7_LoadHistoryTotal ==
    out.ran =>
        /\ out.loaded.exc = "none"
        /\ out.loaded.value =
              (IF out.before.kind = "valid" THEN out.before.log ELSE <<>>)
        /\ load_history(file).exc = "none"
        /\ MainDone => out.history_count = Len(file.log)

C7_Witness ==
    /\ out.ran
    /\ out.before.kind = "unreadable"
    /\ out.before.log # <<>>
    /\ out.loaded = Ok(<<>>)

(* C8: when the file is corrupt as save_to_history runs, the call succeeds,
   the file then holds a valid log of exactly the one new snapshot, and every
   load until the next save returns that log. *)
C8_SaveOverCorrupt ==
    (out.ran /\ out.before.kind = "corrupt") =>
        /\ out.exc = "none"
        /\ file = File("valid", << Entry(now - 1, out.filtered) >>)
        /\ load_history(file) = Ok(<< Entry(now - 1, out.filtered) >>)
        /\ out.history_count = 1

C8_Witness ==
    /\ out.ran
    /\ out.before.kind = "corrupt"
    /\ out.filtered # <<>>
    /\ page.served /\ page.before = file

(* C9: no member of the majors exclusion list is in the ranking main() prints,
   in the tally it persists or in the ranking the dashboard shows, whatever its
   mention count and however many feeds mention it. *)
C9_NoMajors ==
    /\ Keys(out.filtered) \cap MAJORS_TO_EXCLUDE = {}
    /\ \A i \in DOMAIN out.ranked : out.ranked[i].ticker \notin MAJORS_TO_EXCLUDE
    /\ file.kind = "valid" =>
          \A i \in DOMAIN file.log : Keys(file.log[i].tickers) \cap MAJORS_TO_EXCLUDE = {}
    /\ \A i \in DOMAIN page.top_tickers :
          page.top_tickers[i].symbol \notin MAJORS_TO_EXCLUDE

C9_Witness ==
    /\ MainDone
    /\ pc = "idle"
    /\ Get(total_mentions, "BTC", 0) >= 2
    /\ out.ranked # <<>>
    /\ page.served /\ page.before = file

(* C10: the ranked ticker list of main() and of the dashboard is in descending
   order of mention count, and tickers with equal counts are in ascending
   lexicographic order of ticker name. *)
Alphabetical == << "AAA", "BTC", "ETH", "MOON", "ZZZ" >>

LexLess(a, b) ==
    \E i, j \in DOMAIN Alphabetical :
        Alphabetical[i] = a /\ Alphabetical[j] = b /\ i < j

RankedAsClaimed(names, counts) ==
    \A i, j \in DOMAIN names :
        i < j => \/ counts[i] > counts[j]
                 \/ counts[i] = counts[j] /\ LexLess(names[i], names[j])

C10_RankingOrder ==
    /\ RankedAsClaimed([i \in DOMAIN out.ranked |-> out.ranked[i].ticker],
                       [i \in DOMAIN out.ranked |-> out.ranked[i].count])
    /\ RankedAsClaimed([i \in DOMAIN page.top_tickers |-> page.top_tickers[i].symbol],
                       [i \in DOMAIN page.top_tickers |-> page.top_tickers[i].count])

----------------------------------------------------------------------------
(* main.py executed twice on the same posts and the same history file *)

(* the posts the k subreddits can serve with n posts in the model's budget *)
RECURSIVE FeedLists(_, _)
FeedLists(k, n) ==
    IF k = 0 THEN { <<>> }
    ELSE UNION { { Append(r, f) : r \in FeedLists(k - 1, n - Len(f)) } : f \in Feeds(n) }

(* the values total_mentions can have after main()'s loop over the subreddits
   whose posts are fs: analyze_subreddit counts all_tickers, which holds each
   post's list(set(..)) in the order that execution's set iteration gives *)
RECURSIVE scan_totals(_)
scan_totals(fs) ==
    IF fs = <<>> THEN { <<>> }
    ELSE { CounterUpdate(t, CounterOf(l)) :
              t \in scan_totals(SubSeq(fs, 1, Len(fs) - 1)),
              l \in all_tickers_lists(fs[Len(fs)]) }

(* what one execution of main() can print for these posts and this file *)
main_outputs(f, ts, fs) == { main_report(f, ts, m).out : m \in scan_totals(fs) }

InitTwin ==
    /\ file \in InitFiles
    /\ now = Len(file.log) + 1
    /\ pc = "idle"
    /\ sub = 1
    /\ total_mentions = <<>>
    /\ posts_seen = 0
    /\ runs = 0
    /\ out = NoOut
    /\ page = NoPage
    /\ appended = load_history(file).value
    /\ feeds \in FeedLists(NUM_SUBREDDITS, MaxPosts)
    /\ out2 = NoOut
    /\ MultiIdle /\ TextIdle /\ ClusterIdle /\ ConcIdle /\ NostrIdle

(* one execution of main() on the posts and the file *)
TwinFirst ==
    /\ ~out.ran
    /\ out' \in main_outputs(file, now, feeds)
    /\ UNCHANGED <<file, now, pc, sub, total_mentions, posts_seen, runs, page, appended>>
    /\ UNCHANGED <<twin_vars, multi_vars, text_vars, cluster_vars, conc_vars, nostr_vars>>

(* another execution of main(), a process of its own, on the same posts and
   the same file *)
TwinSecond ==
    /\ ~out2.ran
    /\ out2' \in main_outputs(file, now, feeds)
    /\ UNCHANGED <<scan_vars, feeds, multi_vars, text_vars, cluster_vars, conc_vars, nostr_vars>>

NextTwin == TwinFirst \/ TwinSecond

SpecTwin == InitTwin /\ [][NextTwin]_vars

(* C11: two executions of the extraction and ranking pipeline on identical
   documents and an identical history print the same thing: the same tickers
   with the same counts and trends in the same order, equal-count tickers
   included. *)
C11_Deterministic ==
    (out.ran /\ out2.ran) => out = out2

----------------------------------------------------------------------------
(* Python str and the two regular expressions of extract_tickers, character
   by character.  A str is a TLA+ string; Ch(s, i) is its i-th character. *)

Ch(s, i) == SubSeq(s, i, i)

UpperLetters ==
    { "A", "B", "C", "D", "E", "F", "G", "H", "I", "J", "K", "L", "M",
      "N", "O", "P", "Q", "R", "S", "T", "U", "V", "W", "X", "Y", "Z" }

Alphabet == <<"A", "B", "C", "D", "E", "F", "G", "H", "I", "J", "K", "L", "M",
              "N", "O", "P", "Q", "R", "S", "T", "U", "V", "W", "X", "Y", "Z">>

alphabet == <<"a", "b", "c", "d", "e", "f", "g", "h", "i", "j", "k", "l", "m",
              "n", "o", "p", "q", "r", "s", "t", "u", "v", "w", "x", "y", "z">>

(* the characters \w matches *)
WordChars ==
    UpperLetters \cup { alphabet[i] : i \in DOMAIN alphabet }
    \cup { "0", "1", "2", "3", "4", "5", "6", "7", "8", "9", "_" }

(* one character of str.upper() and of str.lower() *)
upper_ch(c) ==
    IF \E i \in DOMAIN alphabet : alphabet[i] = c
    THEN Alphabet[CHOOSE i \in DOMAIN alphabet : alphabet[i] = c]
    ELSE c

lower_ch(c) ==
    IF c \in UpperLetters
    THEN alphabet[CHOOSE i \in DOMAIN Alphabet : Alphabet[i] = c]
    ELSE c

RECURSIVE str_upper(_)
str_upper(s) ==
    IF s = "" THEN ""
    ELSE str_upper(SubSeq(s, 1, Len(s) - 1)) \o upper_ch(Ch(s, Len(s)))

RECURSIVE str_lower(_)
str_lower(s) ==
    IF s = "" THEN ""
    ELSE str_lower(SubSeq(s, 1, Len(s) - 1)) \o lower_ch(Ch(s, Len(s)))

(* keyword in text_lower *)
str_contains(s, keyword) ==
    \E i \in 1..(Len(s) - Len(keyword) + 1) : SubSeq(s, i, i + Len(keyword) - 1) = keyword

is_word_at(s, i) == i >= 1 /\ i <= Len(s) /\ Ch(s, i) \in WordChars

(* \b between the characters i and i + 1 of s (i = 0: before the first) *)
word_boundary(s, i) == is_word_at(s, i) # is_word_at(s, i + 1)

(* the characters pos .. pos + k - 1 of s exist and match [A-Z] *)
upper_run(s, pos, k) ==
    /\ pos + k - 1 <= Len(s)
    /\ \A j \in pos..(pos + k - 1) : Ch(s, j) \in UpperLetters

(* \$([A-Z]{2,10})\b tried at pos: the length of the match, 0 for none.  The
   quantifier is greedy and backtracks, so the longest run that ends at a
   word boundary is taken. *)
sigil_match_NoBoundary(s, pos) ==
    IF pos <= Len(s) /\ Ch(s, pos) = "$"
    THEN LET ks == { k \in 2..10 : upper_run(s, pos + 1, k) }
         IN  IF ks = {} THEN 0 ELSE 1 + CHOOSE k \in ks : \A j \in ks : j <= k
    ELSE 0

sigil_match(s, pos) ==
    IF pos <= Len(s) /\ Ch(s, pos) = "$"
    THEN LET ks == { k \in 2..10 :
                        upper_run(s, pos + 1, k) /\ word_boundary(s, pos + k) }
         IN  IF ks = {} THEN 0 ELSE 1 + CHOOSE k \in ks : \A j \in ks : j <= k
    ELSE 0

(* \b([A-Z]{3,6})\b tried at pos *)
bare_match(s, pos) ==
    IF word_boundary(s, pos - 1)
    THEN LET ks == { k \in 3..6 :
                        upper_run(s, pos, k) /\ word_boundary(s, pos + k - 1) }
         IN  IF ks = {} THEN 0 ELSE CHOOSE k \in ks : \A j \in ks : j <= k
    ELSE 0

(* re.findall(pattern, s): the groups of the non-overlapping matches, scanning
   from pos to the right *)
RECURSIVE findall_sigil(_, _)
findall_sigil(s, pos) ==
    IF pos > Len(s) THEN <<>>
    ELSE LET n == sigil_match(s, pos)
         IN  IF n = 0 THEN findall_sigil(s, pos + 1)
             ELSE <<SubSeq(s, pos + 1, pos + n - 1)>> \o findall_sigil(s, pos + n)

RECURSIVE findall_bare(_, _)
findall_bare(s, pos) ==
    IF pos > Len(s) THEN <<>>
    ELSE LET n == bare_match(s, pos)
         IN  IF n = 0 THEN findall_bare(s, pos + 1)
             ELSE <<SubSeq(s, pos, pos + n - 1)>> \o findall_bare(s, pos + n)

Range(seq) == { seq[i] : i \in DOMAIN seq }

(* extract_tickers of main.py and of the trackers for a str and the tracker's
   common_cryptos: the set that list(set(tickers)) lists *)
str_extract_tickers(text, common) ==
    IF text = "" THEN {}
    ELSE LET text_upper == str_upper(text)
             found == findall_sigil(text_upper, 1)
             potential == findall_bare(text_upper, 1)
         IN  Range(found) \cup { t \in Range(potential) : t \in common }

(* check_keywords returning at the first keyword found *)
str_check_keywords_FirstOnly(text, keywords) ==
    IF text = "" THEN <<>>
    ELSE LET text_lower == str_lower(text)
         IN  FirstN(SelectSeq(keywords, LAMBDA kw : str_contains(text_lower, kw)), 1)

(* check_keywords of the trackers for the tracker's keywords list *)
str_check_keywords(text, keywords) ==
    IF text = "" THEN <<>>
    ELSE LET text_lower == str_lower(text)
         IN  SelectSeq(keywords, LAMBDA kw : str_contains(text_lower, kw))

(* main.py *)
NARRATIVE_KEYWORDS ==
    <<"airdrop", "presale", "launch", "launched", "launching",
      "new coin", "new token", "fair launch", "stealth launch",
      "ido", "ico", "listing", "whitelist", "mint", "minting">>

(* check_keywords of main.py, which has no early return for an empty text *)
main_check_keywords(text) ==
    LET text_lower == str_lower(text)
    IN  SelectSeq(NARRATIVE_KEYWORDS, LAMBDA keyword : str_contains(text_lower, keyword))

----------------------------------------------------------------------------
(* What the network serves to the trackers *)

(* a JSON value found where the code expects a string: a string, null or a
   number other than 0 *)
JStr(s) == [t |-> "str", s |-> s]

JNull == [t |-> "null", s |-> ""]

JNum == [t |-> "num", s |-> ""]

(* Python truth of such a value *)
truthy(v) == (v.t = "str" /\ v.s # "") \/ v.t = "num"

(* what requests.get(.., timeout=..) gives for one request whose body lists at
   most n items out of Items: the request times out, or a status and the
   items.  A body that is not the JSON expected raises inside the try block
   that catches the timeout and is not drawn apart from it. *)
Responses(n, Items) ==
    { [kind |-> "timeout", status |-> 0, items |-> <<>>],
      [kind |-> "response", status |-> 429, items |-> <<>>] }
    \cup { [kind |-> "response", status |-> 200, items |-> c] :
              c \in UNION { [1..m -> Items] : m \in 0..n } }

(* the responses to k requests in a row, at most n items in all *)
RECURSIVE ResponseLists(_, _, _)
ResponseLists(k, n, Items) ==
    IF k = 0 THEN { <<>> }
    ELSE UNION { { Append(r, resp) : r \in ResponseLists(k - 1, n - Len(resp.items), Items) } :
                    resp \in Responses(n, Items) }

RECURSIVE ItemCount(_)
ItemCount(responses) ==
    IF responses = <<>> THEN 0
    ELSE ItemCount(SubSeq(responses, 1, Len(responses) - 1))
         + Len(responses[Len(responses)].items)

TimedOut(responses) == \E i \in DOMAIN responses : responses[i].kind = "timeout"

(* the lists extract_tickers can return for each of the texts, one list per
   text: list(set(..)) in some order *)
RECURSIVE tickers_lists(_, _)
tickers_lists(texts, common) ==
    IF texts = <<>> THEN { <<>> }
    ELSE { Append(a, b) :
              a \in tickers_lists(SubSeq(texts, 1, Len(texts) - 1), common),
              b \in ListsOf(str_extract_tickers(texts[Len(texts)], common)) }

RECURSIVE Flatten(_)
Flatten(lists) ==
    IF lists = <<>> THEN <<>>
    ELSE Flatten(SubSeq(lists, 1, Len(lists) - 1)) \o lists[Len(lists)]

(* the indices of the texts check_keywords finds a keyword in, ascending *)
flagged_posts(texts, keywords) ==
    SelectSeq([i \in DOMAIN texts |-> i],
              LAMBDA i : str_check_keywords(texts[i], keywords) # <<>>)

(* the outcome of a call of analyze_<source>(): the pair it returns, or the
   exception it raises *)
Returned(tickers, keywords) == [exc |-> "none", tickers |-> tickers, keywords |-> keywords]

Raises(e) == [exc |-> e, tickers |-> <<>>, keywords |-> <<>>]

----------------------------------------------------------------------------
(* sources/reddit_tracker.py *)

reddit_subreddits == <<"CryptoCurrency", "CryptoMoonShots", "SatoshiStreetBets", "altcoin">>

reddit_keywords ==
    <<"airdrop", "presale", "launch", "launched", "launching",
      "new coin", "new token", "fair launch", "stealth launch",
      "ido", "ico", "listing", "whitelist", "mint", "minting">>

RedditChildren ==
    { [title |-> JStr("$alpha airdrop"), selftext |-> JStr("")],
      [title |-> JStr("btc"), selftext |-> JStr("$alpha presale")],
      [title |-> JNull, selftext |-> JStr("$zzz")] }

(* get_reddit_json(subreddit): the posts, [] on any exception or status *)
get_reddit_json(response) ==
    IF response.kind # "response" THEN <<>>
    ELSE IF response.status = 429 THEN <<>>
    ELSE IF response.status # 200 THEN <<>>
    ELSE LET kept == SelectSeq(response.items,
                               LAMBDA d : truthy(d.title) \/ truthy(d.selftext))
         IN  [i \in DOMAIN kept |-> [title |-> kept[i].title, content |-> kept[i].selftext]]

(* the posts analyze_reddit loops over, each with its subreddit, in loop order *)
RECURSIVE reddit_posts(_)
reddit_posts(responses) ==
    IF responses = <<>> THEN <<>>
    ELSE LET posts == get_reddit_json(responses[Len(responses)])
         IN  reddit_posts(SubSeq(responses, 1, Len(responses) - 1))
             \o [i \in DOMAIN posts |->
                    [title |-> posts[i].title, content |-> posts[i].content,
                     subreddit |-> reddit_subreddits[Len(responses)]]]

(* analyze_reddit() for the responses of the four subreddits: every outcome
   it can have.  The concatenation raises TypeError for a title or a selftext
   that is not a str. *)
analyze_reddit(responses) ==
    LET posts == reddit_posts(responses)
        texts == [i \in DOMAIN posts |-> posts[i].title.s \o " " \o posts[i].content.s]
        flagged == flagged_posts(texts, reddit_keywords)
    IN  IF \E i \in DOMAIN posts : posts[i].title.t # "str" \/ posts[i].content.t # "str"
        THEN { Raises("TypeError") }
        ELSE { Returned(CounterOf(Flatten(tl)),
                        [j \in DOMAIN flagged |->
                            [content |-> FirstN(posts[flagged[j]].title.s, 100),
                             keywords |-> str_check_keywords(texts[flagged[j]],
                                                             reddit_keywords),
                             tickers |-> tl[flagged[j]],
                             source |-> "reddit",
                             subreddit |-> posts[flagged[j]].subreddit]]) :
               tl \in tickers_lists(texts, common_cryptos) }

----------------------------------------------------------------------------
(* sources/nostr_tracker.py *)

nostr_common_cryptos == { "BTC", "ETH", "SOL", "BNB", "XRP", "ADA", "DOGE", "SATS", "ORDI" }

nostr_keywords ==
    <<"airdrop", "presale", "launch", "launched", "launching",
      "new coin", "new token", "alpha", "early", "mint",
      "testnet", "mainnet", "announcement", "release", "drop">>

crypto_terms == <<"crypto", "bitcoin", "btc", "lightning", "sats", "token", "$">>

(* the 'content' of a note a relay lists *)
NostrNotes == { JStr("$alpha drop"), JStr("gm"), JNull }

NostrItems ==
    { [content_text |-> JStr("$zzz launch"), title |-> JStr("")],
      [content_text |-> JNum, title |-> JStr("")] }

(* try_nostr_relay(relay): the notes, [] unless a request came back with 200 *)
try_nostr_relay(response) ==
    IF response.kind = "response" /\ response.status = 200
    THEN FirstN(response.items, 30)
    ELSE <<>>

(* the loop over one relay's notes: the posts it appends, and whether
   content.lower() raised on the way, which leaves the loop *)
RECURSIVE relay_posts(_)
relay_posts(notes) ==
    IF notes = <<>> THEN [posts |-> <<>>, raised |-> FALSE]
    ELSE LET before == relay_posts(SubSeq(notes, 1, Len(notes) - 1))
             content == notes[Len(notes)]
         IN  IF before.raised THEN before
             ELSE IF content.t # "str" THEN [before EXCEPT !.raised = TRUE]
             ELSE IF \E i \in DOMAIN crypto_terms :
                        str_contains(str_lower(content.s), crypto_terms[i])
                  THEN [before EXCEPT !.posts = Append(@, [content |-> content])]
                  ELSE before

(* the loop over NOSTR_RELAYS_HTTP from relay i on *)
RECURSIVE relay_loop(_, _, _)
relay_loop(relays, i, all_posts) ==
    IF i > Len(relays) THEN all_posts
    ELSE LET scan == relay_posts(try_nostr_relay(relays[i]))
             acc == all_posts \o scan.posts
         IN  IF ~scan.raised /\ acc # <<>> THEN acc
             ELSE relay_loop(relays, i + 1, acc)

(* the posts one bridge's items give *)
bridge_posts(response) ==
    IF response.kind = "response" /\ response.status = 200
    THEN LET items == FirstN(response.items, 20)
             contents == [i \in DOMAIN items |->
                             IF truthy(items[i].content_text)
                             THEN items[i].content_text ELSE items[i].title]
             kept == SelectSeq(contents, truthy)
         IN  [i \in DOMAIN kept |-> [content |-> kept[i]]]
    ELSE <<>>

(* the loop over NOSTR_RSS_BRIDGES from bridge i on *)
RECURSIVE bridge_loop(_, _)
bridge_loop(bridges, i) ==
    IF i > Len(bridges) THEN <<>>
    ELSE IF bridge_posts(bridges[i]) # <<>> THEN bridge_posts(bridges[i])
    ELSE bridge_loop(bridges, i + 1)

(* the posts whose first 100 characters no earlier post has *)
RECURSIVE unique_posts(_)
unique_posts(posts) ==
    IF posts = <<>> THEN <<>>
    ELSE LET before == unique_posts(SubSeq(posts, 1, Len(posts) - 1))
             post == posts[Len(posts)]
         IN  IF \E i \in DOMAIN before :
                    FirstN(before[i].content.s, 100) = FirstN(post.content.s, 100)
             THEN before
             ELSE Append(before, post)

(* get_nostr_posts() for the responses of the two relays and the two bridges;
   slicing a content that is not a str raises TypeError *)
get_nostr_posts(relays, bridges) ==
    LET from_relays == relay_loop(relays, 1, <<>>)
        all_posts == IF from_relays # <<>> THEN from_relays ELSE bridge_loop(bridges, 1)
    IN  IF \E i \in DOMAIN all_posts : all_posts[i].content.t # "str"
        THEN Raised("TypeError")
        ELSE Ok(FirstN(unique_posts(all_posts), 50))

(* analyze_nostr(): every outcome it can have *)
analyze_nostr(relays, bridges) ==
    LET got == get_nostr_posts(relays, bridges)
        posts == got.value
        texts == [i \in DOMAIN posts |-> posts[i].content.s]
        flagged == flagged_posts(texts, nostr_keywords)
    IN  IF got.exc # "none" THEN { Raises(got.exc) }
        ELSE IF posts = <<>> THEN { Returned(<<>>, <<>>) }
        ELSE { Returned(CounterOf(Flatten(tl)),
                        [j \in DOMAIN flagged |->
                            [content |-> FirstN(texts[flagged[j]], 100),
                             keywords |-> str_check_keywords(texts[flagged[j]],
                                                             nostr_keywords),
                             tickers |-> tl[flagged[j]],
                             source |-> "nostr"]]) :
               tl \in tickers_lists(texts, nostr_common_cryptos) }

----------------------------------------------------------------------------
(* sources/telegram_tracker.py *)

telegram_common_cryptos == { "BTC", "ETH", "SOL", "BNB", "XRP", "ADA", "DOGE" }

telegram_keywords ==
    <<"airdrop", "presale", "launch", "launched", "launching",
      "new coin", "new token", "announcement", "listing",
      "ido", "ico", "whitelist", "mint", "fair launch">>

mock_posts ==
    <<"New token $ALPHA launching tomorrow! Presale live!",
      "Airdrop alert for $BETA holders!">>

(* analyze_telegram(): the tally and the flagged posts of the mock data *)
analyze_telegram ==
    LET flagged == flagged_posts(mock_posts, telegram_keywords)
    IN  { Returned(CounterOf(Flatten(tl)),
                   [j \in DOMAIN flagged |->
                       [content |-> FirstN(mock_posts[flagged[j]], 100),
                        keywords |-> str_check_keywords(mock_posts[flagged[j]],
                                                        telegram_keywords),
                        tickers |-> tl[flagged[j]],
                        source |-> "telegram"]]) :
          tl \in tickers_lists(mock_posts, telegram_common_cryptos) }

----------------------------------------------------------------------------
(* sources/farcaster_tracker.py *)

farcaster_common_cryptos == { "BTC", "ETH", "SOL", "BNB", "XRP", "ADA", "DOGE", "BASE", "WARP" }

farcaster_keywords ==
    <<"airdrop", "presale", "launch", "launched", "launching",
      "new coin", "new token", "mint", "minting",
      "alpha", "early", "announcement", "drop", "testnet", "mainnet">>

crypto_keywords ==
    <<"crypto", "bitcoin", "btc", "eth", "token", "coin", "defi", "web3", "$",
      "airdrop", "presale", "launch", "mint">>

(* the 'text' of a cast *)
FarcasterCasts == { JStr("$alpha mint"), JStr("hello"), JNull }

(* the casts of one response *)
farcaster_casts(response) ==
    IF response.kind = "response" /\ response.status = 200 THEN response.items ELSE <<>>

(* get_farcaster_feed() for the response to /feed and, when /casts is asked
   at all, the response to it: [] once text.lower() raises *)
get_farcaster_feed(for_you, recent) ==
    LET all_casts == IF farcaster_casts(for_you) # <<>>
                     THEN farcaster_casts(for_you) ELSE farcaster_casts(recent)
        seen == FirstN(all_casts, 100)
        crypto_posts == SelectSeq(seen, LAMBDA text :
                            text.t = "str" /\ \E i \in DOMAIN crypto_keywords :
                                str_contains(str_lower(text.s), crypto_keywords[i]))
    IN  IF \E i \in DOMAIN seen : seen[i].t # "str" THEN <<>>
        ELSE [i \in DOMAIN crypto_posts |-> [text |-> crypto_posts[i].s, username |-> "unknown"]]

(* analyze_farcaster(): every outcome it can have *)
analyze_farcaster(for_you, recent) ==
    LET posts == get_farcaster_feed(for_you, recent)
        texts == [i \in DOMAIN posts |-> posts[i].text]
        flagged == flagged_posts(texts, farcaster_keywords)
    IN  IF posts = <<>> THEN { Returned(<<>>, <<>>) }
        ELSE { Returned(CounterOf(Flatten(tl)),
                        [j \in DOMAIN flagged |->
                            [content |-> FirstN(texts[flagged[j]], 100),
                             keywords |-> str_check_keywords(texts[flagged[j]],
                                                             farcaster_keywords),
                             tickers |-> tl[flagged[j]],
                             source |-> "farcaster",
                             username |-> posts[flagged[j]].username]]) :
               tl \in tickers_lists(texts, farcaster_common_cryptos) }

----------------------------------------------------------------------------
(* sources/coingecko_tracker.py *)

(* str() of a natural number *)
RECURSIVE str_of(_)
str_of(n) ==
    LET digit == <<"0", "1", "2", "3", "4", "5", "6", "7", "8", "9">>
    IN  IF n < 10 THEN digit[n + 1] ELSE str_of(n \div 10) \o digit[(n % 10) + 1]

(* the 'item' object of a coin of /search/trending; a key the API leaves out
   reads as '' *)
TrendingCoins ==
    { [symbol |-> JStr("alpha"), name |-> "Alpha", market_cap_rank |-> 7],
      [symbol |-> JStr("1inch"), name |-> "1inch", market_cap_rank |-> 999],
      [symbol |-> JNull, name |-> "Null", market_cap_rank |-> 999] }

(* a coin of /coins/markets *)
MarketCoins ==
    { [symbol |-> JStr("zzz"), name |-> "Zed", price_change_percentage_24h |-> 25],
      [symbol |-> JStr("alpha"), name |-> "Alpha", price_change_percentage_24h |-> 15],
      [symbol |-> JStr("btc"), name |-> "Bitcoin", price_change_percentage_24h |-> 5] }

(* get_trending_coins(): [] for a status other than 200 and for any exception,
   .upper() of a symbol that is not a str among them *)
get_trending_coins(response) ==
    IF response.kind # "response" \/ response.status # 200 THEN <<>>
    ELSE IF \E i \in DOMAIN response.items : response.items[i].symbol.t # "str" THEN <<>>
    ELSE [i \in DOMAIN response.items |->
             [symbol |-> str_upper(response.items[i].symbol.s),
              name |-> response.items[i].name,
              rank |-> response.items[i].market_cap_rank]]

(* get_top_gainers(): the coins up more than 10% *)
get_top_gainers(response) ==
    LET up == SelectSeq(response.items, LAMBDA coin : coin.price_change_percentage_24h > 10)
    IN  IF response.kind # "response" \/ response.status # 200 THEN <<>>
        ELSE IF \E i \in DOMAIN up : up[i].symbol.t # "str" THEN <<>>
        ELSE [i \in DOMAIN up |->
                 [symbol |-> str_upper(up[i].symbol.s), name |-> up[i].name,
                  change |-> up[i].price_change_percentage_24h]]

(* [symbol] * n for every coin, in order *)
RECURSIVE weighted(_, _)
weighted(coins, n) ==
    IF coins = <<>> THEN <<>>
    ELSE weighted(SubSeq(coins, 1, Len(coins) - 1), n)
         \o [i \in 1..n |-> coins[Len(coins)].symbol]

(* analyze_coingecko() for the responses to the two requests *)
analyze_coingecko(trending_response, markets_response) ==
    LET trending == get_trending_coins(trending_response)
        gainers == get_top_gainers(markets_response)
        all_tickers == weighted(trending, 3) \o weighted(gainers, 2)
        hot == FirstN(trending, 5)
        big == SelectSeq(FirstN(gainers, 5), LAMBDA coin : coin.change > 20)
    IN  { Returned(CounterOf(all_tickers),
                   [i \in DOMAIN hot |->
                       [content |-> hot[i].name \o " ($" \o hot[i].symbol
                                    \o ") is trending on CoinGecko",
                        keywords |-> <<"trending", "hot">>,
                        tickers |-> <<hot[i].symbol>>,
                        source |-> "coingecko",
                        rank |-> hot[i].rank]]
                   \o [i \in DOMAIN big |->
                       [content |-> big[i].name \o " ($" \o big[i].symbol \o ") up "
                                    \o str_of(big[i].change) \o "% in 24h",
                        keywords |-> <<"pump", "gainers">>,
                        tickers |-> <<big[i].symbol>>,
                        source |-> "coingecko",
                        change |-> big[i].change]]) }

----------------------------------------------------------------------------
(* main_multi_source.py *)

(* the source ids, in the order run_all_trackers calls the trackers *)
TRACKERS == <<"reddit", "nostr", "telegram", "farcaster", "coingecko">>

(* the statement main() reaches when the try block of a tracker is left *)
after_tracker_SkipLast(id) ==
    CASE id = "reddit" -> "nostr"
      [] id = "nostr" -> "telegram"
      [] id = "telegram" -> "farcaster"
      [] id = "farcaster" -> "aggregate"
      [] id = "coingecko" -> "aggregate"

after_tracker(id) ==
    CASE id = "reddit" -> "nostr"
      [] id = "nostr" -> "telegram"
      [] id = "telegram" -> "farcaster"
      [] id = "farcaster" -> "coingecko"
      [] id = "coingecko" -> "aggregate"

(* one try/except block of run_all_trackers for the outcome of the call *)
run_tracker_NoKeyOnFailure(sd, kp, id, outcome) ==
    IF outcome.exc = "none"
    THEN [source_data |-> SetItem(sd, id, outcome.tickers),
          all_keyword_posts |-> kp \o outcome.keywords]
    ELSE [source_data |-> sd, all_keyword_posts |-> kp]

run_tracker(sd, kp, id, outcome) ==
    IF outcome.exc = "none"
    THEN [source_data |-> SetItem(sd, id, outcome.tickers),
          all_keyword_posts |-> kp \o outcome.keywords]
    ELSE [source_data |-> SetItem(sd, id, <<>>), all_keyword_posts |-> kp]

(* the items the network may still serve within the model's budget *)
RECURSIVE ItemsServed(_)
ItemsServed(rs) ==
    IF rs = <<>> THEN 0
    ELSE ItemsServed(SubSeq(rs, 1, Len(rs) - 1)) + rs[Len(rs)].v.items

ItemsLeft == MaxItems - ItemsServed(returned)

(* the call of a tracker has the outcome, after timed_out of its requests and
   items items served: the state run_all_trackers is in after its block *)
Collect(id, outcome, timed_out, items) ==
    /\ source_data' = run_tracker(source_data, all_keyword_posts, id, outcome).source_data
    /\ all_keyword_posts' =
           run_tracker(source_data, all_keyword_posts, id, outcome).all_keyword_posts
    /\ returned' = SetItem(returned, id,
                           [exc |-> outcome.exc, tickers |-> outcome.tickers,
                            keywords |-> outcome.keywords,
                            timed_out |-> timed_out, items |-> items])
    /\ mpc' = after_tracker(id)
    /\ UNCHANGED <<results, scan_vars, twin_vars, text_vars, cluster_vars, conc_vars, nostr_vars>>

RunReddit ==
    /\ mpc = "reddit"
    /\ \E responses \in ResponseLists(Len(reddit_subreddits), ItemsLeft, RedditChildren) :
          \E outcome \in analyze_reddit(responses) :
             Collect("reddit", outcome, TimedOut(responses), ItemCount(responses))

(* the response to a request that is not made: the bridges when a relay gave
   posts, /casts when /feed gave casts *)
NotAsked == [kind |-> "none", status |-> 0, items |-> <<>>]

RunNostr ==
    /\ mpc = "nostr"
    /\ \E relays \in ResponseLists(2, ItemsLeft, NostrNotes) :
          \E bridges \in IF relay_loop(relays, 1, <<>>) # <<>>
                         THEN { <<NotAsked, NotAsked>> }
                         ELSE ResponseLists(2, ItemsLeft - ItemCount(relays), NostrItems) :
             \E outcome \in analyze_nostr(relays, bridges) :
                Collect("nostr", outcome, TimedOut(relays) \/ TimedOut(bridges),
                        ItemCount(relays) + ItemCount(bridges))

RunTelegram ==
    /\ mpc = "telegram"
    /\ \E outcome \in analyze_telegram : Collect("telegram", outcome, FALSE, 0)

RunFarcaster ==
    /\ mpc = "farcaster"
    /\ \E for_you \in Responses(ItemsLeft, FarcasterCasts) :
          \E recent \in IF farcaster_casts(for_you) # <<>>
                        THEN { NotAsked }
                        ELSE Responses(ItemsLeft - Len(for_you.items), FarcasterCasts) :
             \E outcome \in analyze_farcaster(for_you, recent) :
                Collect("farcaster", outcome, TimedOut(<<for_you, recent>>),
                        Len(for_you.items) + Len(recent.items))

RunCoingecko ==
    /\ mpc = "coingecko"
    /\ \E trending \in Responses(ItemsLeft, TrendingCoins) :
          \E markets \in Responses(ItemsLeft - Len(trending.items), MarketCoins) :
             \E outcome \in analyze_coingecko(trending, markets) :
                Collect("coingecko", outcome, TimedOut(<<trending, markets>>),
                        Len(trending.items) + Len(markets.items))

----------------------------------------------------------------------------
(* aggregator.aggregate_all_sources, which main_multi_source.py imports: the
   Cross-Source Aggregator/Scorer and the cross-platform rule of the Insight
   Generator, with the reference formula and the default threshold *)

CROSS_PLATFORM_THRESHOLD == 3

(* the characters of the model's strings in code point order *)
CodePoints ==
    <<" ", "!", "$", "(", ")", "0", "1", "2", "3", "4", "5", "6", "7", "8", "9">>
    \o Alphabet \o <<"_">> \o alphabet

(* a < b for two str *)
RECURSIVE str_less(_, _)
str_less(a, b) ==
    IF b = "" THEN FALSE
    ELSE IF a = "" THEN TRUE
    ELSE IF Ch(a, 1) # Ch(b, 1)
         THEN LET x == Ch(a, 1)
                  y == Ch(b, 1)
              IN  (CHOOSE i \in DOMAIN CodePoints : CodePoints[i] = x)
                      < (CHOOSE j \in DOMAIN CodePoints : CodePoints[j] = y)
    ELSE str_less(SubSeq(a, 2, Len(a)), SubSeq(b, 2, Len(b)))

(* step 1: the sum over the sources of the ticker's count *)
RECURSIVE total_mentions_of(_, _)
total_mentions_of(sd, ticker) ==
    IF sd = <<>> THEN 0
    ELSE total_mentions_of(SubSeq(sd, 1, Len(sd) - 1), ticker)
         + Get(sd[Len(sd)].v, ticker, 0)

(* step 1: the sources that count the ticker at least once, in the order of
   the source tally *)
sources_of(sd, ticker) ==
    LET with == SelectSeq(sd, LAMBDA e : Get(e.v, ticker, 0) > 0)
    IN  [i \in DOMAIN with |-> with[i].k]

(* step 3, the reference formula total_mentions * (1 + 0.5 * (|sources| - 1)) *)
narrative_score_NoBonus(total, n) == RatInt(total)

narrative_score_PerSource(total, n) == IF n = 0 THEN RatInt(0) ELSE Rat(total, n)

narrative_score(total, n) == Rat(total * (2 + (n - 1)), 2)

scored_ticker(sd, ticker) ==
    [ticker |-> ticker,
     narrative_score |-> narrative_score(total_mentions_of(sd, ticker),
                                         Len(sources_of(sd, ticker))),
     sources |-> sources_of(sd, ticker)]

(* step 4: a goes before b in the ranked list *)
ranks_before(a, b) ==
    \/ b.narrative_score.num * a.narrative_score.den
           < a.narrative_score.num * b.narrative_score.den
    \/ a.narrative_score = b.narrative_score /\ str_less(a.ticker, b.ticker)

(* steps 1 to 4 *)
scored_tickers_of(sd) ==
    LET merged == UNION { Keys(sd[i].v) : i \in DOMAIN sd }
        kept == { scored_ticker(sd, t) : t \in merged \ MAJORS_TO_EXCLUDE }
    IN  [p \in 1..Cardinality(kept) |->
            CHOOSE x \in kept : Cardinality({ y \in kept : ranks_before(y, x) }) = p - 1]

(* the cross_platform_alert rule; the message, whose wording is left open, is
   kept as the ticker and the source count it names *)
cross_platform_alerts_AtTwo(scored) ==
    LET firing == SelectSeq(scored, LAMBDA item : Len(item.sources) >= 2)
    IN  [i \in DOMAIN firing |->
            [type |-> "cross_platform_alert", tickers |-> <<firing[i].ticker>>,
             source_count |-> Len(firing[i].sources)]]

cross_platform_alerts(scored) ==
    LET firing == SelectSeq(scored,
                            LAMBDA item : Len(item.sources) >= CROSS_PLATFORM_THRESHOLD)
    IN  [i \in DOMAIN firing |->
            [type |-> "cross_platform_alert", tickers |-> <<firing[i].ticker>>,
             source_count |-> Len(firing[i].sources)]]

aggregate_all_sources(sd, kp) ==
    [called |-> TRUE, source_data |-> sd, keyword_posts |-> kp,
     scored_tickers |-> scored_tickers_of(sd),
     insights |-> cross_platform_alerts(scored_tickers_of(sd))]

(* main(): the call of aggregator.aggregate_all_sources after run_all_trackers
   has returned; display_results prints what it is handed *)
Aggregate ==
    /\ mpc = "aggregate"
    /\ results' = aggregate_all_sources(source_data, all_keyword_posts)
    /\ mpc' = "done"
    /\ UNCHANGED <<source_data, all_keyword_posts, returned>>
    /\ UNCHANGED <<scan_vars, twin_vars, text_vars, cluster_vars, conc_vars, nostr_vars>>

InitMulti ==
    /\ file = File("absent", <<>>)
    /\ now = 1
    /\ pc = "idle"
    /\ sub = 1
    /\ total_mentions = <<>>
    /\ posts_seen = 0
    /\ runs = 0
    /\ out = NoOut
    /\ page = NoPage
    /\ appended = <<>>
    /\ TwinIdle /\ TextIdle /\ ClusterIdle /\ ConcIdle /\ NostrIdle
    /\ mpc = "reddit"
    /\ source_data = <<>>
    /\ all_keyword_posts = <<>>
    /\ returned = <<>>
    /\ results = NoResults

NextMulti ==
    RunReddit \/ RunNostr \/ RunTelegram \/ RunFarcaster \/ RunCoingecko \/ Aggregate

SpecMulti == InitMulti /\ [][NextMulti]_vars

----------------------------------------------------------------------------
(* The aggregator applied to every source tally of a bounded shape *)

(* a Counter of the counts, the tickers counted 0 left out *)
TallyOf(alpha, zzz) ==
    (IF alpha > 0 THEN << [k |-> "ALPHA", v |-> alpha] >> ELSE <<>>)
    \o (IF zzz > 0 THEN << [k |-> "ZZZ", v |-> zzz] >> ELSE <<>>)

(* the tally analyze_telegram returns for its mock posts *)
telegram_tally == (CHOOSE outcome \in analyze_telegram : TRUE).tickers

(* the dicts run_all_trackers can return: telegram's tally of its mock posts,
   ALPHA counted up to MaxCount times by each other source, ZZZ by reddit and
   coingecko *)
SourceTallies ==
    { [i \in DOMAIN TRACKERS |->
          [k |-> TRACKERS[i],
           v |-> CASE TRACKERS[i] = "telegram" -> telegram_tally
                   [] TRACKERS[i] = "reddit" -> TallyOf(a[i], z)
                   [] TRACKERS[i] = "coingecko" -> TallyOf(a[i], y)
                   [] OTHER -> TallyOf(a[i], 0)]] :
      a \in [{ i \in DOMAIN TRACKERS : TRACKERS[i] # "telegram" } -> 0..MaxCount], z \in 0..MaxCount, y \in 0..MaxCount }

InitAggregate ==
    /\ file = File("absent", <<>>)
    /\ now = 1
    /\ pc = "idle"
    /\ sub = 1
    /\ total_mentions = <<>>
    /\ posts_seen = 0
    /\ runs = 0
    /\ out = NoOut
    /\ page = NoPage
    /\ appended = <<>>
    /\ TwinIdle /\ TextIdle /\ ClusterIdle /\ ConcIdle /\ NostrIdle
    /\ mpc = "aggregate"
    /\ source_data \in SourceTallies
    /\ all_keyword_posts = <<>>
    /\ returned = <<>>
    /\ results = NoResults

SpecAggregate == InitAggregate /\ [][Aggregate]_vars

----------------------------------------------------------------------------
(* Properties of the multi-source run *)

(* run_all_trackers has returned *)
TrackersDone == mpc \in { "aggregate", "done" }

Failed(id) == Get(returned, id, Raises("none")).exc # "none"

(* C12: aggregate_all_sources is called only after each of reddit, nostr,
   telegram, farcaster and coingecko has resolved, with a result or with a
   failure kept to itself, and nothing a collaborator does changes the tally
   or the flagged posts once scoring has begun. *)
C12_Barrier ==
    results.called =>
        /\ Keys(returned) = Range(TRACKERS)
        /\ Keys(results.source_data) = Range(TRACKERS)
        /\ source_data = results.source_data
        /\ all_keyword_posts = results.keyword_posts

C12_Witness ==
    /\ results.called
    /\ Failed("nostr")
    /\ Get(source_data, "reddit", <<>>) # <<>>
    /\ Get(source_data, "telegram", <<>>) # <<>>

(* C13: no call of analyze_reddit, analyze_nostr, analyze_telegram,
   analyze_farcaster or analyze_coingecko raises, whatever the service answers:
   a status other than 200, a timeout, or JSON whose fields are null. *)
C13_CollectNeverRaises ==
    \A i \in DOMAIN returned : returned[i].v.exc = "none"

(* the flagged posts run_all_trackers keeps from the trackers up to the n-th *)
RECURSIVE KeptPosts(_)
KeptPosts(n) ==
    IF n = 0 THEN <<>>
    ELSE KeptPosts(n - 1)
         \o (IF Failed(TRACKERS[n]) THEN <<>>
             ELSE Get(returned, TRACKERS[n], Raises("none")).keywords)

(* C14: when run_all_trackers returns, source_data has exactly the five source
   ids as keys; a collaborator that failed maps to an empty tally and adds no
   flagged post, every other one maps to the tally it returned and adds the
   flagged posts it returned. *)
C14_FiveKeys ==
    TrackersDone =>
        /\ Len(source_data) = Len(TRACKERS)
        /\ Keys(source_data) = Range(TRACKERS)
        /\ \A i \in DOMAIN TRACKERS :
              Get(source_data, TRACKERS[i], <<>>) =
                 IF Failed(TRACKERS[i]) THEN <<>>
                 ELSE Get(returned, TRACKERS[i], Raises("none")).tickers
        /\ all_keyword_posts = KeptPosts(Len(TRACKERS))

C14_Witness ==
    /\ TrackersDone
    /\ Failed("reddit")
    /\ ~Failed("nostr")
    /\ Get(returned, "nostr", Raises("none")).keywords # <<>>
    /\ Get(source_data, "telegram", <<>>) # <<>>

(* C15: a collaborator one of whose requests timed out hands over an empty
   tally and no flagged post: nothing from its other requests is kept. *)
C15_TimeoutEmpty ==
    \A i \in DOMAIN returned :
        returned[i].v.timed_out =>
            returned[i].v.tickers = <<>> /\ returned[i].v.keywords = <<>>

----------------------------------------------------------------------------
(* Properties of the aggregator *)

(* the ScoredTicker of a ticker in a ranked list, and its place in the list *)
ScoredAs(scored, ticker) == scored[CHOOSE i \in DOMAIN scored : scored[i].ticker = ticker]

PlaceOf(scored, ticker) == CHOOSE i \in DOMAIN scored : scored[i].ticker = ticker

Ranked(scored) == { scored[i].ticker : i \in DOMAIN scored }

(* the number of sources of a source tally that count the ticker at least once *)
SourceCount(sd, ticker) ==
    Cardinality({ i \in DOMAIN sd : Get(sd[i].v, ticker, 0) > 0 })

(* a < b for two scores *)
ScoreLess(a, b) == a.num * b.den < b.num * a.den

(* C16: of two ranked tickers with the same total m > 0 of mentions, the one
   whose mentions come from more distinct sources has the strictly greater
   narrative_score; with the reference formula the score is
   m * (1 + 0.5 * (sources - 1)). *)
C16_CrossPlatformBonus ==
    results.called =>
        \A a, b \in Ranked(results.scored_tickers) :
            LET sd == results.source_data
                m == total_mentions_of(sd, a)
            IN  /\ ScoredAs(results.scored_tickers, a).narrative_score
                      = Rat(m * (SourceCount(sd, a) + 1), 2)
                /\ (m > 0 /\ total_mentions_of(sd, b) = m
                        /\ SourceCount(sd, b) > SourceCount(sd, a))
                   => ScoreLess(ScoredAs(results.scored_tickers, a).narrative_score,
                                ScoredAs(results.scored_tickers, b).narrative_score)

C16_Witness ==
    /\ results.called
    /\ { "ALPHA", "ZZZ" } \subseteq Ranked(results.scored_tickers)
    /\ total_mentions_of(results.source_data, "ALPHA") = 2
    /\ total_mentions_of(results.source_data, "ZZZ") = 2
    /\ SourceCount(results.source_data, "ALPHA") = 2
    /\ SourceCount(results.source_data, "ZZZ") = 1
    /\ PlaceOf(results.scored_tickers, "ALPHA") < PlaceOf(results.scored_tickers, "ZZZ")

(* the source tally with the count of the ticker in the i-th source one higher *)
Raise(sd, i, ticker) ==
    LET raised == SetItem(sd[i].v, ticker, Get(sd[i].v, ticker, 0) + 1)
    IN  [sd EXCEPT ![i].v = SubSeq(raised, 1, Len(raised))]

(* C17: raising the count of one ticker in one source, all else equal (from 0
   to 1 included, which adds the source), never lowers the ticker's
   narrative_score and never moves it below a ticker it ranked above. *)
C17_Monotone ==
    results.called =>
        \A t \in Ranked(results.scored_tickers) : \A i \in DOMAIN results.source_data :
            LET before == results.scored_tickers
                after == aggregate_all_sources(Raise(results.source_data, i, t),
                                               results.keyword_posts).scored_tickers
            IN  /\ ~ScoreLess(ScoredAs(after, t).narrative_score,
                              ScoredAs(before, t).narrative_score)
                /\ \A u \in Ranked(before) :
                      PlaceOf(before, t) < PlaceOf(before, u)
                          => PlaceOf(after, t) < PlaceOf(after, u)

C17_Witness ==
    /\ results.called
    /\ { "ALPHA", "ZZZ" } \subseteq Ranked(results.scored_tickers)
    /\ PlaceOf(results.scored_tickers, "ALPHA") < PlaceOf(results.scored_tickers, "ZZZ")
    /\ ScoredAs(results.scored_tickers, "ALPHA").narrative_score
           = ScoredAs(results.scored_tickers, "ZZZ").narrative_score
    /\ SourceCount(results.source_data, "ALPHA") = 1
    /\ Get(Get(results.source_data, "nostr", <<>>), "ALPHA", 0) = 0

(* the tickers the cross_platform_alert insights name *)
Alerted(insights) ==
    UNION { Range(insights[i].tickers) :
            i \in { j \in DOMAIN insights : insights[j].type = "cross_platform_alert" } }

(* C18: a cross_platform_alert is produced for a ranked ticker exactly when at
   least 3 sources count it at least once; two sources give none, and a source
   with an empty tally does not count. *)
C18_CrossPlatformAlert ==
    results.called =>
        /\ Alerted(results.insights) \subseteq Ranked(results.scored_tickers)
        /\ \A t \in Ranked(results.scored_tickers) :
              t \in Alerted(results.insights) <=> SourceCount(results.source_data, t) >= 3

C18_Witness ==
    /\ results.called
    /\ "ALPHA" \in Alerted(results.insights)
    /\ SourceCount(results.source_data, "ALPHA") = 3
    /\ "ZZZ" \in Ranked(results.scored_tickers)
    /\ SourceCount(results.source_data, "ZZZ") = 2
    /\ "ZZZ" \notin Alerted(results.insights)
    /\ \E i \in DOMAIN results.source_data : results.source_data[i].v = <<>>

----------------------------------------------------------------------------
(* extract_tickers on one text *)

(* what the texts are made of: the sigil, characters that end a word and
   characters that do not, a whitelisted word, letters in both cases, and a run
   that makes 10 letters with "x" and 11 with "Ab" *)
Pieces == { "$", " ", "_", "1", "btc", "Ab", "x", "abcdefghi" }

RECURSIVE Texts(_)
Texts(n) ==
    IF n = 0 THEN { "" }
    ELSE Texts(n - 1) \cup { t \o p : t \in Texts(n - 1), p \in Pieces }

InitText ==
    /\ file = File("absent", <<>>)
    /\ now = 1
    /\ pc = "idle"
    /\ sub = 1
    /\ total_mentions = <<>>
    /\ posts_seen = 0
    /\ runs = 0
    /\ out = NoOut
    /\ page = NoPage
    /\ appended = <<>>
    /\ TwinIdle /\ MultiIdle /\ ClusterIdle /\ ConcIdle /\ NostrIdle
    /\ text_pc = "call"
    /\ text_in \in Texts(MaxPieces)
    /\ tickers_out = <<>>
    /\ keywords_out = NoKeywords

(* extract_tickers(text): list(set(tickers)) lists the set in an order the
   code does not fix *)
ExtractTickers ==
    /\ text_pc = "call"
    /\ tickers_out' \in ListsOf(str_extract_tickers(text_in, common_cryptos))
    /\ text_pc' = "return"
    /\ UNCHANGED <<scan_vars, twin_vars, multi_vars, text_in, keywords_out, cluster_vars, conc_vars, nostr_vars>>

SpecText == InitText /\ [][ExtractTickers]_vars

(* Properties of extract_tickers *)

IsLetter(c) == upper_ch(c) \in UpperLetters

(* the characters p .. p + k - 1 of the text are letters *)
LetterRun(text, p, k) ==
    /\ p >= 1 /\ p + k - 1 <= Len(text)
    /\ \A j \in p..(p + k - 1) : IsLetter(Ch(text, j))

(* no word character stands at place p of the text *)
EndsWord(text, p) == p < 1 \/ p > Len(text) \/ Ch(text, p) \notin WordChars

(* the upper-cased runs of 2 to 10 letters that follow a "$" and end at a
   word boundary *)
SigilRuns(text) ==
    { str_upper(SubSeq(text, pk[1] + 1, pk[1] + pk[2])) :
      pk \in { qk \in (1..Len(text)) \X (2..10) :
                  /\ Ch(text, qk[1]) = "$"
                  /\ LetterRun(text, qk[1] + 1, qk[2])
                  /\ EndsWord(text, qk[1] + qk[2] + 1) } }

(* the upper-cased whole words of 3 to 6 letters *)
BareTokens(text) ==
    { str_upper(SubSeq(text, pk[1], pk[1] + pk[2] - 1)) :
      pk \in { qk \in (1..Len(text)) \X (3..6) :
                  /\ LetterRun(text, qk[1], qk[2])
                  /\ EndsWord(text, qk[1] - 1)
                  /\ EndsWord(text, qk[1] + qk[2]) } }

(* C19: extract_tickers(text) returns a duplicate-free list whose members are
   exactly the "$"-prefixed runs of 2 to 10 letters that end at a word
   boundary, upper-cased, and the bare words of 3 to 6 letters that are in the
   whitelist; a run of more than 10 letters and a bare word outside the
   whitelist are not returned, and a ticker the text mentions several times is
   returned once. *)
C19_ExtractTickers ==
    text_pc = "return" =>
        /\ Range(tickers_out)
               = SigilRuns(text_in) \cup (BareTokens(text_in) \cap common_cryptos)
        /\ Cardinality(Range(tickers_out)) = Len(tickers_out)

C19_Witness ==
    /\ text_pc = "return"
    /\ text_in = "$btc btc"
    /\ tickers_out = <<"BTC">>

(* TickerSymbol: an uppercase string of 2 to 10 alphabetic characters *)
IsTickerSymbol(s) ==
    /\ Len(s) >= 2 /\ Len(s) <= 10
    /\ \A i \in 1..Len(s) : Ch(s, i) \in UpperLetters

(* C20: every key of every tally run_all_trackers hands to
   aggregate_all_sources, CoinGecko's symbols included, is an uppercase string
   of 2 to 10 letters. *)
C20_KeysAreTickerSymbols ==
    \A i \in DOMAIN source_data : \A key \in Keys(source_data[i].v) : IsTickerSymbol(key)

----------------------------------------------------------------------------
(* check_keywords on one text *)

(* what the texts are made of: parts of keywords in both cases, some of which
   lie inside other keywords ("drop" in "airdrop", "launch" in "launched") *)
KeywordPieces == { "air", "DROP", "Launch", "ed", "ing", " ", "Mint" }

RECURSIVE KeywordTexts(_)
KeywordTexts(n) ==
    IF n = 0 THEN { "" }
    ELSE KeywordTexts(n - 1) \cup { t \o p : t \in KeywordTexts(n - 1), p \in KeywordPieces }

InitKeywords ==
    /\ file = File("absent", <<>>)
    /\ now = 1
    /\ pc = "idle"
    /\ sub = 1
    /\ total_mentions = <<>>
    /\ posts_seen = 0
    /\ runs = 0
    /\ out = NoOut
    /\ page = NoPage
    /\ appended = <<>>
    /\ TwinIdle /\ MultiIdle /\ ClusterIdle /\ ConcIdle /\ NostrIdle
    /\ text_pc = "call"
    /\ text_in \in KeywordTexts(MaxPieces)
    /\ tickers_out = <<>>
    /\ keywords_out = NoKeywords

(* check_keywords(text) of main.py *)
CheckKeywordsMain ==
    /\ text_pc = "call"
    /\ keywords_out' = [vocabulary |-> NARRATIVE_KEYWORDS,
                        found |-> main_check_keywords(text_in)]
    /\ text_pc' = "return"
    /\ UNCHANGED <<scan_vars, twin_vars, multi_vars, text_in, tickers_out, cluster_vars, conc_vars, nostr_vars>>

(* check_keywords(text) of nostr_tracker.py *)
CheckKeywordsNostr ==
    /\ text_pc = "call"
    /\ keywords_out' = [vocabulary |-> nostr_keywords,
                        found |-> str_check_keywords(text_in, nostr_keywords)]
    /\ text_pc' = "return"
    /\ UNCHANGED <<scan_vars, twin_vars, multi_vars, text_in, tickers_out, cluster_vars, conc_vars, nostr_vars>>

NextKeywords == CheckKeywordsMain \/ CheckKeywordsNostr

SpecKeywords == InitKeywords /\ [][NextKeywords]_vars

(* Properties of check_keywords *)

(* the keyword stands somewhere in the text, letter case set aside *)
OccursIn(keyword, text) ==
    \E p \in 1..(Len(text) - Len(keyword) + 1) :
        \A j \in 1..Len(keyword) : upper_ch(Ch(text, p + j - 1)) = upper_ch(Ch(keyword, j))

PlaceIn(list, x) == CHOOSE i \in DOMAIN list : list[i] = x

(* C21: check_keywords(text) returns exactly the keywords of the vocabulary
   that occur in the text as a substring, letter case set aside, all of them,
   each once and in the order of the vocabulary; the empty list when none
   occurs. *)
C21_CheckKeywords ==
    text_pc = "return" =>
        LET vocabulary == keywords_out.vocabulary
            found == keywords_out.found
        IN  /\ Range(found) = { kw \in Range(vocabulary) : OccursIn(kw, text_in) }
            /\ \A i, j \in DOMAIN found :
                  i < j => PlaceIn(vocabulary, found[i]) < PlaceIn(vocabulary, found[j])

C21_Witness ==
    /\ text_pc = "return"
    /\ text_in = "airDROPLaunched"
    /\ keywords_out.found = <<"airdrop", "launch", "launched", "drop">>

----------------------------------------------------------------------------
(* main.py: the NARRATIVE ALERTS section of main() *)

(* titles of the posts analyze_subreddit flags, their content being empty *)
ClusterTitles ==
    { "$aaa airdrop", "$aaa airdrop soon", "$bbb airdrop launch", "launch soon",
      "$ccc $bbb stealth launch minting presale" }

(* the entry analyze_subreddit appends to keyword_posts for a post whose
   extract_tickers list is tickers *)
main_keyword_post(title, content, tickers) ==
    [title |-> FirstN(title, TITLE_CHARS),
     keywords |-> main_check_keywords(title \o " " \o content),
     tickers |-> tickers]

KeywordPosts ==
    UNION { { main_keyword_post(t, "", tl) :
              tl \in ListsOf(str_extract_tickers(t \o " ", common_cryptos)) } :
            t \in ClusterTitles }

(* all_keyword_posts after the scan loop, with at most n posts *)
KeywordPostLists(n) == UNION { [1..m -> KeywordPosts] : m \in 0..n }

(* the inner loop over post['keywords'], from the j-th keyword on *)
RECURSIVE add_post(_, _, _)
add_post(groups, post, j) ==
    IF j > Len(post.keywords) THEN groups
    ELSE add_post(SetItem(groups, post.keywords[j],
                          Append(Get(groups, post.keywords[j], <<>>), post)),
                  post, j + 1)

(* the dict keyword_groups after the loop over all_keyword_posts *)
RECURSIVE keyword_groups(_)
keyword_groups(posts) ==
    IF posts = <<>> THEN <<>>
    ELSE add_post(keyword_groups(SubSeq(posts, 1, Len(posts) - 1)), posts[Len(posts)], 1)

(* what the section prints: per group the keyword, len(posts) and, for the
   first posts, the title and the first tickers *)
narrative_alerts(posts) ==
    LET groups == keyword_groups(posts)
        sorted == FirstN(SortedDescBy(groups, [i \in DOMAIN groups |-> Len(groups[i].v)]),
                         ALERT_GROUPS)
    IN  IF posts = <<>> THEN [NoAlerts EXCEPT !.ran = TRUE]
        ELSE [ran |-> TRUE, printed |-> TRUE, keyword_groups |-> groups,
              groups |-> [i \in DOMAIN sorted |->
                            [keyword |-> sorted[i].k,
                             count |-> Len(sorted[i].v),
                             posts |-> [j \in DOMAIN FirstN(sorted[i].v, ALERT_POSTS) |->
                                          [title |-> sorted[i].v[j].title,
                                           tickers |-> FirstN(sorted[i].v[j].tickers,
                                                              ALERT_TICKERS)]]]]]

InitCluster ==
    /\ file = File("absent", <<>>)
    /\ now = 1
    /\ pc = "idle"
    /\ sub = 1
    /\ total_mentions = <<>>
    /\ posts_seen = 0
    /\ runs = 0
    /\ out = NoOut
    /\ page = NoPage
    /\ appended = <<>>
    /\ TwinIdle /\ MultiIdle /\ TextIdle /\ ConcIdle /\ NostrIdle
    /\ keyword_posts_in \in KeywordPostLists(MaxDocs)
    /\ alerts = NoAlerts

NarrativeAlerts ==
    /\ ~alerts.ran
    /\ alerts' = narrative_alerts(keyword_posts_in)
    /\ UNCHANGED <<scan_vars, twin_vars, multi_vars, text_vars, keyword_posts_in, conc_vars, nostr_vars>>

SpecCluster == InitCluster /\ [][NarrativeAlerts]_vars

(* Properties of the keyword clustering *)

(* the flagged documents whose keyword list holds the keyword *)
DocsWith(posts, keyword) ==
    { i \in DOMAIN posts : keyword \in Range(posts[i].keywords) }

(* the tickers the section shows for a group, in the order shown *)
GroupTickers(group) == Flatten([j \in DOMAIN group.posts |-> group.posts[j].tickers])

(* C22: every keyword matched by a flagged document has a group; the group's
   count is the number of flagged documents whose keyword list holds the
   keyword, and the group's tickers are the duplicate-free union of the
   tickers of those documents. *)
C22_KeywordGroups ==
    alerts.ran =>
        \A keyword \in UNION { Range(keyword_posts_in[i].keywords) : i \in DOMAIN keyword_posts_in } :
            \E g \in DOMAIN alerts.groups :
                LET group == alerts.groups[g]
                    docs == DocsWith(keyword_posts_in, keyword)
                IN  /\ group.keyword = keyword
                    /\ group.count = Cardinality(docs)
                    /\ Range(GroupTickers(group))
                           = UNION { Range(keyword_posts_in[i].tickers) : i \in docs }
                    /\ Cardinality(Range(GroupTickers(group))) = Len(GroupTickers(group))

(* C23: the groups are listed by count descending, and groups with equal
   counts by keyword ascending, whatever the order of the documents. *)
C23_GroupOrder ==
    alerts.ran =>
        \A i, j \in DOMAIN alerts.groups :
            i < j => \/ alerts.groups[i].count > alerts.groups[j].count
                     \/ /\ alerts.groups[i].count = alerts.groups[j].count
                        /\ str_less(alerts.groups[i].keyword, alerts.groups[j].keyword)

----------------------------------------------------------------------------
(* main.py: calculate_trends and save_to_history called with any dict of ints *)

(* every dict over TrendTickers with counts from -1 to MaxCount, in every key
   order *)
IntTallies ==
    UNION { { [i \in DOMAIN l |-> [k |-> l[i], v |-> c[i]]] :
                c \in [DOMAIN l -> -1..MaxCount] } :
            l \in UNION { ListsOf(S) : S \in SUBSET TrendTickers } }

InitContract ==
    /\ file \in { File("absent", <<>>) } \cup { File("valid", Seed(n)) : n \in 0..MaxHist }
    /\ now = Len(file.log) + 1
    /\ pc = "idle"
    /\ sub = 1
    /\ total_mentions = <<>>
    /\ posts_seen = 0
    /\ runs = 0
    /\ out = NoOut
    /\ page = NoPage
    /\ appended = file.log
    /\ TwinIdle /\ MultiIdle /\ TextIdle /\ ClusterIdle /\ ConcIdle /\ NostrIdle

(* calculate_trends(current_mentions) *)
ContractTrends ==
    /\ ~out.ran
    /\ \E current_mentions \in IntTallies :
          out' = [NoOut EXCEPT !.ran = TRUE, !.before = file,
                               !.loaded = load_history(file),
                               !.filtered = current_mentions,
                               !.trends = main_calculate_trends(load_history(file).value,
                                                                current_mentions)]
    /\ UNCHANGED <<file, now, pc, sub, total_mentions, posts_seen, runs, page, appended>>
    /\ UNCHANGED <<twin_vars, multi_vars, text_vars, cluster_vars, conc_vars, nostr_vars>>

(* save_to_history(ticker_data) *)
ContractSave ==
    /\ ~out.ran
    /\ \E ticker_data \in IntTallies :
          LET saved == save_to_history(file, now, ticker_data)
          IN  /\ file' = saved.file
              /\ out' = [NoOut EXCEPT !.ran = TRUE, !.exc = saved.exc, !.before = file,
                                      !.loaded = load_history(file),
                                      !.filtered = ticker_data]
              /\ appended' = IF saved.exc = "none"
                             THEN Append(appended, Entry(now, ticker_data))
                             ELSE appended
    /\ now' = now + 1
    /\ UNCHANGED <<pc, sub, total_mentions, posts_seen, runs, page>>
    /\ UNCHANGED <<twin_vars, multi_vars, text_vars, cluster_vars, conc_vars, nostr_vars>>

NextContract == ContractTrends \/ ContractSave

SpecContract == InitContract /\ [][NextContract]_vars

HasNegative(tally) == \E i \in DOMAIN tally : tally[i].v < 0

(* C24: when the tally handed to calculate_trends or to save_to_history holds a
   negative count, the call ends with an error for the caller, computes no
   trend and leaves the persisted log as it was. *)
C24_NegativeCountRejected ==
    (out.ran /\ HasNegative(out.filtered)) =>
        /\ out.exc # "none"
        /\ out.trends = <<>>
        /\ file = out.before

----------------------------------------------------------------------------
(* Properties of the history file over the runs of main.py *)

(* C25: a save_to_history call on a readable log changes it only by adding the
   new snapshot at the end and by removing entries from the front: every
   snapshot that stays keeps its timestamp, its tickers and its place relative
   to the others. *)
C25_SnapshotsImmutable ==
    [][(file.kind \in { "valid", "absent" } /\ file' # file) =>
          /\ file'.kind = "valid"
          /\ file'.log # <<>>
          /\ \E k \in 0..Len(file.log) :
                SubSeq(file'.log, 1, Len(file'.log) - 1)
                    = SubSeq(file.log, k + 1, Len(file.log))]_vars

C25_Witness ==
    /\ MainDone
    /\ out.before.kind = "valid"
    /\ Len(out.before.log) = HISTORY_CAP
    /\ Len(file.log) = HISTORY_CAP
    /\ SubSeq(file.log, 1, HISTORY_CAP - 1) = SubSeq(out.before.log, 2, HISTORY_CAP)
    /\ file.log[HISTORY_CAP].tickers # <<>>

(* C26: every execution of main() that returns appends exactly one snapshot,
   the filtered tally of the run, after computing the trends from the log as
   it was, also when no post was fetched and the tally is empty: the length of
   the stored log grows by 1 per run up to 100 and then stays 100.  Nothing
   else in a run writes the file. *)
C26_OneAppendPerRun ==
    [][/\ (pc = "scanning" /\ pc' = "idle" /\ out'.exc = "none") =>
            LET before == load_history(file).value
                after == load_history(file').value
            IN  /\ file'.kind = "valid"
                /\ Len(after) = Min(Len(before) + 1, HISTORY_CAP)
                /\ after[Len(after)] = Entry(now, out'.filtered)
                /\ out'.trends = main_calculate_trends(before, out'.filtered)
       /\ file' # file => (pc = "scanning" /\ pc' = "idle")]_vars

C26_Witness ==
    /\ MainDone
    /\ runs = 1
    /\ posts_seen = 0
    /\ out.filtered = <<>>
    /\ out.before.kind = "valid"
    /\ Len(file.log) = Len(out.before.log) + 1
    /\ file.log[Len(file.log)].tickers = <<>>

----------------------------------------------------------------------------
(* save_to_history of a tracker run, statement by statement, next to the reads
   of the dashboard and of load_history in other processes *)

(* the tallies main() hands to save_to_history: counts of at least 1 *)
WriterTallies == { t \in TrendTallies : \A i \in DOMAIN t : t[i].v >= 1 }

InitConcurrent ==
    /\ file \in { File("absent", <<>>) } \cup { File("valid", Seed(n)) : n \in 1..(MaxHist + 1) }
    /\ now = Len(file.log) + 1
    /\ pc = "idle"
    /\ sub = 1
    /\ total_mentions = <<>>
    /\ posts_seen = 0
    /\ runs = 0
    /\ out = NoOut
    /\ page = NoPage
    /\ appended = file.log
    /\ TwinIdle /\ MultiIdle /\ TextIdle /\ ClusterIdle /\ ConcIdle /\ NostrIdle

(* save_to_history up to the statement before open(): history is loaded, the
   entry appended and the list cut to the cap *)
SaveLoad ==
    /\ wpc = "idle"
    /\ runs < MaxRuns
    /\ \E ticker_data \in WriterTallies :
          dumping' = save_to_history(file, now, ticker_data).file.log
    /\ wpc' = "loaded"
    /\ runs' = runs + 1
    /\ UNCHANGED <<file, now, pc, sub, total_mentions, posts_seen, out, page, appended>>
    /\ UNCHANGED <<rpc, read1, observed>>
    /\ UNCHANGED <<twin_vars, multi_vars, text_vars, cluster_vars, nostr_vars>>

(* open(HISTORY_FILE, 'w'): the file exists and is empty *)
SaveOpen ==
    /\ wpc = "loaded"
    /\ file' = File("corrupt", <<>>)
    /\ wpc' = "opened"
    /\ UNCHANGED <<now, pc, sub, total_mentions, posts_seen, runs, out, page, appended>>
    /\ UNCHANGED <<dumping, rpc, read1, observed>>
    /\ UNCHANGED <<twin_vars, multi_vars, text_vars, cluster_vars, nostr_vars>>

(* json.dump(history, f, indent=2) and the end of the with block; the text
   written so far is no JSON document until the last piece is written *)
SaveDump ==
    /\ wpc = "opened"
    /\ file' = File("valid", dumping)
    /\ appended' = Append(appended, dumping[Len(dumping)])
    /\ now' = now + 1
    /\ wpc' = "idle"
    /\ dumping' = <<>>
    /\ UNCHANGED <<pc, sub, total_mentions, posts_seen, runs, out, page>>
    /\ UNCHANGED <<rpc, read1, observed>>
    /\ UNCHANGED <<twin_vars, multi_vars, text_vars, cluster_vars, nostr_vars>>

(* the complete logs a read at this moment can be expected to find: the log
   before the append, and the log after it while a save is under way *)
CompleteLogs == { appended } \cup (IF wpc # "idle" THEN { dumping } ELSE {})

(* load_history() in another process *)
LoadHistory ==
    /\ observed' = [read |-> TRUE, history |-> load_history(file).value,
                    allowed |-> CompleteLogs]
    /\ UNCHANGED <<scan_vars, wpc, dumping, rpc, read1>>
    /\ UNCHANGED <<twin_vars, multi_vars, text_vars, cluster_vars, nostr_vars>>

(* dashboard() up to the return of load_latest_data(), and to the end when
   there is no data *)
RequestLatest ==
    /\ rpc = "idle"
    /\ LET result == load_latest_data(file)
       IN  /\ observed' = [read |-> TRUE,
                           history |-> IF result.has THEN file.log ELSE <<>>,
                           allowed |-> CompleteLogs]
           /\ IF result.has
              THEN /\ rpc' = "read1" /\ read1' = file
                   /\ UNCHANGED page
              ELSE /\ page' = dashboard(file, file)
                   /\ UNCHANGED <<rpc, read1>>
    /\ UNCHANGED <<file, now, pc, sub, total_mentions, posts_seen, runs, out, appended>>
    /\ UNCHANGED <<wpc, dumping>>
    /\ UNCHANGED <<twin_vars, multi_vars, text_vars, cluster_vars, nostr_vars>>

(* the rest of dashboard(): the second open() of the file and the page *)
RequestTrends ==
    /\ rpc = "read1"
    /\ page' = dashboard(read1, file)
    /\ rpc' = "idle"
    /\ read1' = File("absent", <<>>)
    /\ UNCHANGED <<file, now, pc, sub, total_mentions, posts_seen, runs, out, appended>>
    /\ UNCHANGED <<wpc, dumping, observed>>
    /\ UNCHANGED <<twin_vars, multi_vars, text_vars, cluster_vars, nostr_vars>>

NextConcurrent ==
    SaveLoad \/ SaveOpen \/ SaveDump \/ LoadHistory \/ RequestLatest \/ RequestTrends

SpecConcurrent == InitConcurrent /\ [][NextConcurrent]_vars

(* C27: a read of the history file by load_history or load_latest_data that
   runs next to one save_to_history call finds the complete log from before
   the append or the complete log after it, never an empty or half-written
   file that it takes for an empty history. *)
C27_ReadsSeeCompleteLog ==
    observed.read => observed.history \in observed.allowed

(* C28: in the page of one dashboard request, count - previous = change for
   every displayed ticker that has a trend record, also when a tracker run
   appends a snapshot between the two reads of the request. *)
C28_PageFromOneState ==
    (page.served /\ page.data) =>
        \A i \in DOMAIN page.top_tickers :
            page.top_tickers[i].symbol \in Keys(page.trends) =>
                page.top_tickers[i].count - page.top_tickers[i].previous
                    = page.top_tickers[i].change

----------------------------------------------------------------------------
(* Properties of what main.py ranks and persists *)

(* the posts of the scanned feeds, as pairs of subreddit and place *)
ScannedPosts == { sp \in (DOMAIN feeds) \X (1..MaxPosts + 1) : sp[2] <= Len(feeds[sp[1]]) }

(* the ticker stands "$"-prefixed in the post *)
SigilIn(post, ticker) ==
    \E i \in DOMAIN post_text(post) :
        post_text(post)[i].sigil /\ Upper(post_text(post)[i].word) = ticker

BareIn(post, ticker) ==
    \E i \in DOMAIN post_text(post) :
        ~post_text(post)[i].sigil /\ Upper(post_text(post)[i].word) = ticker

FromSigils(o) ==
    o.ran =>
        /\ \A i \in DOMAIN o.filtered :
              /\ \E sp \in ScannedPosts : SigilIn(feeds[sp[1]][sp[2]], o.filtered[i].k)
              /\ o.filtered[i].v >= 1
              /\ o.filtered[i].v <= Cardinality(ScannedPosts)
        /\ \A i \in DOMAIN o.ranked : o.ranked[i].ticker \in Keys(o.filtered)

(* C29: the whitelist of bare tokens lies inside the majors exclusion list, so
   every ticker main() ranks or hands to save_to_history stood "$"-prefixed in
   at least one scanned post, and its count is at least 1 and at most the
   number of scanned posts. *)
C29_OnlySigilTickers ==
    /\ common_cryptos \subseteq MAJORS_TO_EXCLUDE
    /\ FromSigils(out)
    /\ FromSigils(out2)

C29_Witness ==
    /\ out.ran
    /\ Cardinality(ScannedPosts) = 2
    /\ \E sp \in ScannedPosts : BareIn(feeds[sp[1]][sp[2]], "BTC")
    /\ \E sp \in ScannedPosts : BareIn(feeds[sp[1]][sp[2]], "MOON")
    /\ Keys(out.filtered) = { "ZZZ", "AAA" }
    /\ Get(out.filtered, "ZZZ", 0) = 2

----------------------------------------------------------------------------
(* get_nostr_posts() on its own: the two relays of NOSTR_RELAYS_HTTP and the
   two bridges of NOSTR_RSS_BRIDGES answer, then the function runs once *)

(* the 'content' of a note the second relay lists *)
WineNotes == { JStr("btc gm"), JStr("hello") }

InitNostr ==
    /\ file = File("absent", <<>>)
    /\ now = 1
    /\ pc = "idle"
    /\ sub = 1
    /\ total_mentions = <<>>
    /\ posts_seen = 0
    /\ runs = 0
    /\ out = NoOut
    /\ page = NoPage
    /\ appended = <<>>
    /\ TwinIdle /\ MultiIdle /\ TextIdle /\ ClusterIdle /\ ConcIdle
    /\ \E r1 \in Responses(MaxItems, NostrNotes), r2 \in Responses(MaxItems, WineNotes) :
          \E b1 \in IF relay_loop(<<r1, r2>>, 1, <<>>) # <<>>
                    THEN { NotAsked } ELSE Responses(MaxItems, NostrItems),
             b2 \in IF relay_loop(<<r1, r2>>, 1, <<>>) # <<>>
                    THEN { NotAsked } ELSE Responses(MaxItems, NostrItems) :
             nostr_in = [relays |-> <<r1, r2>>, bridges |-> <<b1, b2>>]
    /\ nostr_out = NoCall

GetNostrPosts ==
    /\ ~nostr_out.called
    /\ LET got == get_nostr_posts(nostr_in.relays, nostr_in.bridges)
       IN  nostr_out' = [exc |-> got.exc, called |-> TRUE, value |-> got.value]
    /\ UNCHANGED <<scan_vars, twin_vars, multi_vars, text_vars, cluster_vars, conc_vars, nostr_in>>

SpecNostr == InitNostr /\ [][GetNostrPosts]_vars

(* Properties of get_nostr_posts *)

(* the contents a relay yields: those of its notes that pass the crypto filter
   and stand before the first note whose content is no str, at which the scan
   of the relay's notes ends *)
CryptoContents(response) ==
    IF response.kind = "response" /\ response.status = 200
    THEN { response.items[i] : i \in { j \in DOMAIN response.items :
              /\ \A h \in 1..j : response.items[h].t = "str"
              /\ \E k \in DOMAIN crypto_terms :
                    str_contains(str_lower(response.items[j].s), crypto_terms[k]) } }
    ELSE {}

(* the contents a bridge's answer offers *)
BridgeContents(response) ==
    IF response.kind = "response" /\ response.status = 200
    THEN { c \in { response.items[i].content_text : i \in DOMAIN response.items }
                 \cup { response.items[i].title : i \in DOMAIN response.items } : truthy(c) }
    ELSE {}

(* the first place of a sequence of content sets that is not empty, 0 if none *)
FirstYielding(contents) ==
    IF \E i \in DOMAIN contents : contents[i] # {}
    THEN CHOOSE i \in DOMAIN contents :
            contents[i] # {} /\ \A j \in 1..(i - 1) : contents[j] = {}
    ELSE 0

RelayContents == [i \in DOMAIN nostr_in.relays |-> CryptoContents(nostr_in.relays[i])]

BridgeOffers == [i \in DOMAIN nostr_in.bridges |-> BridgeContents(nostr_in.bridges[i])]

ReturnedContents == { nostr_out.value[i].content : i \in DOMAIN nostr_out.value }

(* C30: the posts get_nostr_posts returns come from a single origin, the first
   relay in configured order that yields a crypto-filtered post, or, when no
   relay yields one, the first bridge that yields a post; they are at most 50,
   and no two of them share the first 100 characters of content. *)
C30_SingleOrigin ==
    (nostr_out.called /\ nostr_out.exc = "none") =>
        /\ FirstYielding(RelayContents) # 0 =>
              ReturnedContents \subseteq RelayContents[FirstYielding(RelayContents)]
        /\ (FirstYielding(RelayContents) = 0 /\ FirstYielding(BridgeOffers) # 0) =>
              ReturnedContents \subseteq BridgeOffers[FirstYielding(BridgeOffers)]
        /\ (FirstYielding(RelayContents) = 0 /\ FirstYielding(BridgeOffers) = 0) =>
              nostr_out.value = <<>>
        /\ Len(nostr_out.value) <= 50
        /\ \A i, j \in DOMAIN nostr_out.value :
              i # j => FirstN(nostr_out.value[i].content.s, 100)
                          # FirstN(nostr_out.value[j].content.s, 100)

====
